---- MODULE Spec2Model ----
(***************************************************************************)
(* Design-tokens manager: the synchronisation core.                        *)
(*                                                                         *)
(*   TokenHttpServer          packages/app/src/server.ts                   *)
(*   hybridCommunicationPlugin (the relay)   unnamed/part_001              *)
(*   useTokens (web-app hook)                unnamed/part_002              *)
(*   WebSocketClient                         unnamed/part_007              *)
(*                                                                         *)
(* Each component is a state machine over its own variables; a             *)
(* specification SpecX runs one component (or a composition) and leaves    *)
(* the variables of the others unchanged.                                  *)
(***************************************************************************)
EXTENDS Integers, Sequences, FiniteSets, TLC

VARIABLES
    \* ---- TokenHttpServer (server.ts)
    srvTokens,              \* this.tokens
    onTokenUpdateCallback,  \* TRUE when a callback is registered
    callbackArg,            \* argument of the latest callback invocation
    \* history of the store, for the claims
    storeEvent,             \* the latest operation and its message
    prevTokens,             \* this.tokens before the latest handled message
    net,                    \* id -> latest token created/upserted and not deleted since
    collisionFree,          \* no create of a stored id, no sync with a repeated id, so far
    cudOnly,                \* only create, update and delete messages handled so far
    \* ---- WebSocketClient (part_007)
    ws,                     \* this.ws: the current socket, 0 for null
    reconnectAttempts,      \* this.reconnectAttempts
    readyState,             \* readyState of every socket the client has created
    reconnectTimers,        \* pending setTimeout(() => this.connect(), reconnectInterval)
    \* history of the client, for the claims
    wcEvent,                \* the latest event
    consecutiveCloses,      \* close events since the latest open event
    closeScheduled,         \* whether the latest close event scheduled a reconnect
    handlers,               \* the sockets that carry a 'message' listener
    autoSockets,            \* the sockets created by the reconnect timer
    wcIo,                   \* the latest send() or inbound message, and what came of it
    registeredWhileOpen,    \* onMessage(callback) was called on an open socket
    userDisconnected,       \* disconnect() was called and connect() not since
    \* ---- the relay, hybridCommunicationPlugin (part_001)
    wsClients,              \* const wsClients = new Set()
    sseClients,             \* const sseClients = new Set()
    currentTokens,          \* let currentTokens = []
    connState,              \* per client handle: NONE, OPEN, CLOSING, ERRORED, CLOSED
    inbox,                  \* per client handle: what the relay wrote to it, in order
    httpResponse,           \* the latest HTTP response of /api/tokens
    now,                    \* Date.now()
    \* history of the relay, for the claims
    relayEvent,             \* the latest handler: its input, the state before, its sends
    lastSync,               \* tokens of the latest processed sync that carried tokens
    ackedPost,              \* tokens of a 200-acknowledged POST sync not yet superseded
    inbound,                \* inbound messages handled so far
    \* ---- useTokens, the web-app hook (part_002)
    tokens,                 \* const [tokens, setTokens] = useState([])
    wsConnected,            \* const [wsConnected, setWsConnected] = useState(false)
    lastSyncTime,           \* const [lastSyncTime, setLastSyncTime] = useState(0)
    closureLastSyncTime,    \* lastSyncTime as the effect's closure captured it
    hookPhase,              \* init, mounted (effect ran), unmounted (cleanup ran)
    hookSockets,            \* readyState of every socket connectWebSocket created
    hookWs,                 \* the effect's `ws`: the latest socket, 0 for null
    hookTimers,             \* pending setTimeout(connectWebSocket, 3000)
    hookOutbox,             \* per socket: what the hook sent on it, not yet received
    hookRead,               \* per socket: how many relay messages the hook has handled
    \* history of the hook, for the claims
    hookEvent,              \* the latest message handled by ws.onmessage
    \* ---- the hook connected to the relay: history, for the claims
    catchUp,                \* per hook socket: the snapshot the relay pushed on connection
    syncEvent,              \* the latest relay message the hook handled
    \* ---- push clients that queue messages for the relay
    wire,                   \* per push connection: messages sent, not yet handled
    handledLog,             \* per push connection: numbers of the messages handled, in order
    \* ---- HybridClient, the plugin's polling client (figma-plugin/src/code.ts)
    isConnected,            \* this.isConnected
    uiPosted,               \* the latest message given to figma.ui.postMessage
    uiConnected,            \* connected of the latest CONNECTION_STATUS, as a string
    posts,                  \* POST requests of send() that have not settled
    \* ---- the shared WebSocketServer (part_007)
    sharedClients,          \* this.clients, as the numbers of the connections
    sharedSockets,          \* readyState of every connection accepted so far
    sharedInbox,            \* per connection, the frames client.send was given
    sharedHandled,          \* the latest frame a message handler took, and how many
    pollClock,              \* the plugin's clock, in ms since the client was constructed
    loops,                  \* every polling loop connectPolling started: its timer or
                            \* request, with the times of its latest events
    \* ---- the surroundings of the web app
    hookBudget,             \* sockets the hook creates in a run
    relayUp                 \* whether ws://localhost:8080 accepts connections

storeVars == <<srvTokens, onTokenUpdateCallback, callbackArg,
               storeEvent, prevTokens, net, collisionFree, cudOnly>>

wcVars == <<ws, reconnectAttempts, readyState, reconnectTimers,
            wcEvent, consecutiveCloses, closeScheduled,
            handlers, autoSockets, wcIo, registeredWhileOpen, userDisconnected>>

relayVars == <<wsClients, sseClients, currentTokens, connState, inbox,
               httpResponse, now, relayEvent, lastSync, ackedPost, inbound>>

hookVars == <<tokens, wsConnected, lastSyncTime, closureLastSyncTime, hookPhase,
              hookSockets, hookWs, hookTimers, hookOutbox, hookRead, hookEvent>>

linkVars == <<catchUp, syncEvent>>

pushVars == <<wire, handledLog>>

pollVars == <<isConnected, pollClock, loops, uiPosted, uiConnected, posts>>

envVars == <<hookBudget, relayUp>>
sharedVars == <<sharedClients, sharedSockets, sharedInbox, sharedHandled>>

outsidePoll == <<storeVars, wcVars, relayVars, hookVars, linkVars, pushVars, sharedVars, envVars>>
outsideShared == <<storeVars, wcVars, relayVars, hookVars, linkVars, pushVars, pollVars, envVars>>

vars == <<storeVars, wcVars, relayVars, hookVars, linkVars, pushVars, pollVars, sharedVars, envVars>>

\* what an action of one component leaves alone
outsideStore == <<wcVars, relayVars, hookVars, linkVars, pushVars, pollVars, sharedVars, envVars>>
outsideWc == <<storeVars, relayVars, hookVars, linkVars, pushVars, pollVars, sharedVars, envVars>>
outsideRelay == <<storeVars, wcVars, hookVars, linkVars, pushVars, pollVars, sharedVars, envVars>>
\* what a step of the relay fed by queueing push clients leaves alone
outsidePush == <<storeVars, wcVars, hookVars, linkVars, pollVars, sharedVars, envVars>>
outsideHook == <<storeVars, wcVars, wsClients, sseClients, currentTokens, connState, inbox,
                 httpResponse, relayEvent, lastSync, ackedPost, inbound, linkVars, pushVars, pollVars, sharedVars, envVars>>

(***************************************************************************)
(* Bounds of the model.                                                    *)
(***************************************************************************)
MaxStoreLen == 2        \* longest token list the store is driven to
MaxSyncLen == 2         \* longest token array carried by a sync message
MaxSockets == 7         \* sockets one WebSocketClient creates in a run
MaxCallbacks == 1       \* calls of onMessage(callback) in a run
MaxLiveSockets == 2     \* sockets of one WebSocketClient not yet closed at a time
MaxWsClients == 2       \* push connections the relay accepts in a run
MaxHookSockets == 7     \* sockets the hook creates when only its connection is followed
MaxSseClients == 1      \* stream connections the relay accepts in a run
MaxConnections == 2     \* connections (push and stream together) accepted in a run
MaxRelaySyncLen == 1    \* longest token array of a sync sent to the relay
MaxInbound == 2         \* inbound messages (push or POST) the relay handles in a run
MaxTicks == 2           \* clock ticks in a run
StartTime == 1000000    \* Date.now() at the start (stands for a clock far above 1000 ms)
SenderTime == 1         \* a timestamp a sender supplies, not a value of the relay's clock
TickMs == 500           \* milliseconds per clock tick
MaxHookLen == 2         \* longest token list the hook is driven to by addToken
MaxHookSyncs == 2       \* messages delivered to a stand-alone hook in a run
MaxSharedSockets == 3    \* connections the shared server accepts in a run
MaxSharedHandled == 3    \* frames its message handlers take in a run
MaxPosts == 2            \* POST requests of send() in flight at a time
MaxLoops == 2           \* polling loops (calls of connect) of one HybridClient
MaxPollClock == 8000    \* the plugin's clock stops here
MaxSent == 2            \* messages one queueing push client sends in a run

(***************************************************************************)
(* Tokens.  An id is a string, kept as the sequence of its characters so   *)
(* that prefix and substring tests are computed, not looked up.            *)
(***************************************************************************)
IdStyle == <<"S", ":", "1">>
IdManual == <<"m", "1">>
IdDebug == <<"d", "e", "b", "u", "g", "-", "1">>
IdPlain == <<"t", "1">>
IdText == <<"T", ":", "1">>
IdVariable == <<"V", "a", "r", "i", "a", "b", "l", "e", "I", "D", ":", "1">>

StoreIds == {IdStyle, IdManual}

\* DesignToken {id, name, type, value, description?}; name and description are
\* carried along untouched by every operation modelled here and are left out.
\* The tokens used: for each id a colour and a dimension, with different values.
DesignToken(ids) ==
    {[id |-> i, type |-> "color", value |-> "v1"] : i \in ids}
    \cup {[id |-> i, type |-> "dimension", value |-> "v2"] : i \in ids}

StoreToken == DesignToken(StoreIds)

\* all sequences over S of length at most n
RECURSIVE SeqsUpTo(_, _)
SeqsUpTo(S, n) ==
    IF n = 0 THEN {<<>>}
    ELSE LET shorter == SeqsUpTo(S, n - 1)
         IN  shorter \cup {Append(s, x) : s \in {t \in shorter : Len(t) = n - 1}, x \in S}

\* Array.prototype.findIndex(t => t.id === id), 1-based; 0 stands for -1
RECURSIVE FindIndexFrom(_, _, _)
FindIndexFrom(arr, id, i) ==
    IF i > Len(arr) THEN 0
    ELSE IF arr[i].id = id THEN i
    ELSE FindIndexFrom(arr, id, i + 1)

\* mutant: a search that never finds the id
findIndexNever(arr, id) == 0

findIndex(arr, id) == FindIndexFrom(arr, id, 1)

\* Array.prototype.filter(t => t.id !== id)
RECURSIVE filterNotId(_, _)
filterNotId(arr, id) ==
    IF arr = <<>> THEN <<>>
    ELSE IF Head(arr).id # id THEN <<Head(arr)>> \o filterNotId(Tail(arr), id)
    ELSE filterNotId(Tail(arr), id)

\* Array.prototype.push
push(arr, t) == Append(arr, t)

(***************************************************************************)
(* TokenHttpServer.handleTokenMessage: the new value of this.tokens.       *)
(***************************************************************************)
\* mutant: a sync that merges into the stored array instead of replacing it
applySyncMerging(arr, payloadTokens) == arr \o payloadTokens

applySync(arr, payloadTokens) == payloadTokens

\* mutant: an update that never looks for the stored entry
applyUpdateAlwaysPush(arr, token) == push(arr, token)

applyUpdate(arr, token) ==
    LET updateIndex == findIndex(arr, token.id)
    IN  IF updateIndex # 0 THEN [arr EXCEPT ![updateIndex] = token]
        ELSE push(arr, token)

applyCreate(arr, token) == push(arr, token)

\* mutant: a delete that drops the first entry when nothing matches
applyDeleteDropsHead(arr, tokenId) ==
    IF findIndex(arr, tokenId) = 0 /\ arr # <<>> THEN Tail(arr)
    ELSE filterNotId(arr, tokenId)

applyDelete(arr, tokenId) == filterNotId(arr, tokenId)

handleTokenMessageResult(arr, message) ==
    CASE message.type = "sync"   -> applySync(arr, message.payload.tokens)
      [] message.type = "update" -> applyUpdate(arr, message.payload.token)
      [] message.type = "create" -> applyCreate(arr, message.payload.token)
      [] message.type = "delete" -> applyDelete(arr, message.payload.tokenId)

getTokens == srvTokens

\* the messages the store is driven with
StoreMessage ==
    [type : {"sync"}, payload : [tokens : SeqsUpTo(StoreToken, MaxSyncLen)]]
    \cup [type : {"update", "create"}, payload : [token : StoreToken]]
    \cup [type : {"delete"}, payload : [tokenId : StoreIds]]

IdsOf(arr) == {arr[i].id : i \in DOMAIN arr}
UniqueIds(arr) == \A i, j \in DOMAIN arr : arr[i].id = arr[j].id => i = j

\* the net effect of a message on the map id -> latest token
NetAfter(n, message) ==
    CASE message.type = "sync" ->
            LET T == message.payload.tokens
            IN  [id \in IdsOf(T) |->
                    T[CHOOSE i \in DOMAIN T :
                        /\ T[i].id = id
                        /\ \A j \in DOMAIN T : T[j].id = id => j <= i]]
      [] message.type \in {"update", "create"} ->
            LET t == message.payload.token
            IN  [id \in DOMAIN n \cup {t.id} |-> IF id = t.id THEN t ELSE n[id]]
      [] message.type = "delete" ->
            [id \in DOMAIN n \ {message.payload.tokenId} |-> n[id]]

StoreInit ==
    /\ srvTokens = <<>>
    /\ onTokenUpdateCallback = FALSE
    /\ callbackArg = <<>>
    /\ storeEvent = [op |-> "constructor"]
    /\ prevTokens = <<>>
    /\ net = << >>
    /\ collisionFree = TRUE
    /\ cudOnly = TRUE

\* onTokenUpdate(callback)
OnTokenUpdate ==
    /\ onTokenUpdateCallback' = TRUE
    /\ storeEvent' = [op |-> "onTokenUpdate"]
    /\ UNCHANGED <<srvTokens, callbackArg, prevTokens, net, collisionFree, cudOnly>>
    /\ UNCHANGED outsideStore

\* handleTokenMessage(message)
HandleTokenMessage(message) ==
    /\ Len(handleTokenMessageResult(srvTokens, message)) <= MaxStoreLen
    /\ srvTokens' = handleTokenMessageResult(srvTokens, message)
    /\ callbackArg' = IF onTokenUpdateCallback THEN srvTokens' ELSE callbackArg
    /\ storeEvent' = [op |-> "handleTokenMessage", message |-> message,
                      repeat |-> (/\ storeEvent.op = "handleTokenMessage"
                                  /\ storeEvent.message = message)]
    /\ prevTokens' = srvTokens
    /\ net' = NetAfter(net, message)
    /\ collisionFree' =
          /\ collisionFree
          /\ message.type = "create" => message.payload.token.id \notin IdsOf(srvTokens)
          /\ message.type = "sync" => UniqueIds(message.payload.tokens)
    /\ cudOnly' = (cudOnly /\ message.type # "sync")
    /\ UNCHANGED onTokenUpdateCallback
    /\ UNCHANGED outsideStore

NextStore ==
    \/ OnTokenUpdate
    \/ \E message \in StoreMessage : HandleTokenMessage(message)

(***************************************************************************)
(* WebSocketClient (part_007): connect, the socket's events,               *)
(* attemptReconnect, disconnect.  Sockets are numbered in the order in     *)
(* which connect() creates them.                                           *)
(***************************************************************************)
maxReconnectAttempts == 5

Sockets == 1 .. MaxSockets
Created == DOMAIN readyState

\* mutant: the cap test counts the attempt about to be made
canReconnectCountingAhead(attempts) == attempts + 1 < maxReconnectAttempts

\* attemptReconnect: if (this.reconnectAttempts < this.maxReconnectAttempts)
canReconnect(attempts) == attempts < maxReconnectAttempts

\* what a call of send() or an inbound message came to
NoIo == [op |-> "none"]

\* send(): this.ws && this.ws.readyState === WebSocket.OPEN
canSend == ws # 0 /\ readyState[ws] = "OPEN"

\* send() returns undefined on both branches; the else branch is console.error
sendReport(open) == "nothing"

\* the socket s has a 'message' listener that calls the callback
listens(s) == s \in handlers

\* mutant: an open leaves the count of attempts as it was
attemptsKeptOnOpen(attempts) == attempts

\* ws.on('open'): this.reconnectAttempts = 0
attemptsOnOpen(attempts) == 0

WcInit ==
    /\ ws = 0
    /\ reconnectAttempts = 0
    /\ readyState = << >>
    /\ reconnectTimers = 0
    /\ wcEvent = "constructor"
    /\ consecutiveCloses = 0
    /\ closeScheduled = FALSE
    /\ handlers = {}
    /\ autoSockets = {}
    /\ wcIo = NoIo
    /\ registeredWhileOpen = FALSE
    /\ userDisconnected = FALSE

\* the body of connect(): this.ws = new WebSocket(this.url), handlers attached
connectBody ==
    /\ Len(readyState) < MaxSockets
    /\ readyState' = Append(readyState, "CONNECTING")
    /\ ws' = Len(readyState) + 1

LiveSockets == {s \in Created : readyState[s] # "CLOSED"}

\* connect() called by the owner of the client
Connect ==
    /\ Cardinality(LiveSockets) < MaxLiveSockets
    /\ connectBody
    /\ wcEvent' = "connect"
    /\ userDisconnected' = FALSE
    /\ UNCHANGED <<reconnectAttempts, reconnectTimers, consecutiveCloses, closeScheduled>>
    /\ UNCHANGED <<handlers, autoSockets, wcIo, registeredWhileOpen>>
    /\ UNCHANGED outsideWc

\* the reconnect timer fires: this.connect().catch(console.error)
ReconnectTimerFires ==
    /\ reconnectTimers > 0
    /\ reconnectTimers' = reconnectTimers - 1
    /\ connectBody
    /\ wcEvent' = "reconnect"
    /\ autoSockets' = autoSockets \cup {Len(readyState) + 1}
    /\ UNCHANGED <<reconnectAttempts, consecutiveCloses, closeScheduled>>
    /\ UNCHANGED <<handlers, wcIo, registeredWhileOpen, userDisconnected>>
    /\ UNCHANGED outsideWc

\* ws.on('open')
OnOpen(s) ==
    /\ readyState[s] = "CONNECTING"
    /\ readyState' = [readyState EXCEPT ![s] = "OPEN"]
    /\ reconnectAttempts' = attemptsOnOpen(reconnectAttempts)
    /\ wcEvent' = "open"
    /\ consecutiveCloses' = 0
    /\ UNCHANGED <<ws, reconnectTimers, closeScheduled>>
    /\ UNCHANGED <<handlers, autoSockets, wcIo, registeredWhileOpen, userDisconnected>>
    /\ UNCHANGED outsideWc

\* ws.on('error'): the promise is rejected; the socket goes on to close
OnError(s) ==
    /\ readyState[s] \in {"CONNECTING", "OPEN"}
    /\ readyState' = [readyState EXCEPT ![s] = "CLOSING"]
    /\ wcEvent' = "error"
    /\ UNCHANGED <<ws, reconnectAttempts, reconnectTimers, consecutiveCloses, closeScheduled>>
    /\ UNCHANGED <<handlers, autoSockets, wcIo, registeredWhileOpen, userDisconnected>>
    /\ UNCHANGED outsideWc

\* ws.on('close') -> attemptReconnect()
OnClose(s) ==
    /\ readyState[s] \in {"OPEN", "CLOSING"}
    /\ readyState' = [readyState EXCEPT ![s] = "CLOSED"]
    /\ IF canReconnect(reconnectAttempts)
       THEN /\ reconnectAttempts' = reconnectAttempts + 1
            /\ reconnectTimers' = reconnectTimers + 1
            /\ closeScheduled' = TRUE
       ELSE /\ closeScheduled' = FALSE
            /\ UNCHANGED <<reconnectAttempts, reconnectTimers>>
    /\ wcEvent' = "close"
    /\ consecutiveCloses' = consecutiveCloses + 1
    /\ UNCHANGED ws
    /\ UNCHANGED <<handlers, autoSockets, wcIo, registeredWhileOpen, userDisconnected>>
    /\ UNCHANGED outsideWc

\* disconnect(): if (this.ws) { this.ws.close(); this.ws = null }
Disconnect ==
    /\ ws # 0
    /\ readyState' = [readyState EXCEPT
                        ![ws] = IF @ \in {"CONNECTING", "OPEN"} THEN "CLOSING" ELSE @]
    /\ ws' = 0
    /\ wcEvent' = "disconnect"
    /\ userDisconnected' = TRUE
    /\ UNCHANGED <<reconnectAttempts, reconnectTimers, consecutiveCloses, closeScheduled>>
    /\ UNCHANGED <<handlers, autoSockets, wcIo, registeredWhileOpen>>
    /\ UNCHANGED outsideWc

\* send(message): written to the socket when it is open, otherwise
\* console.error('WebSocket is not connected') and nothing else
Send ==
    /\ wcIo' = [op |-> "send", written |-> canSend, caller |-> sendReport(canSend)]
    /\ wcEvent' = "send"
    /\ UNCHANGED <<ws, reconnectAttempts, readyState, reconnectTimers,
                   consecutiveCloses, closeScheduled>>
    /\ UNCHANGED <<handlers, autoSockets, registeredWhileOpen, userDisconnected>>
    /\ UNCHANGED outsideWc

\* onMessage(callback): if (this.ws) this.ws.on('message', ...)
OnMessage ==
    /\ Cardinality(handlers) < MaxCallbacks
    /\ ws # 0
    /\ handlers' = handlers \cup {ws}
    /\ registeredWhileOpen' = (registeredWhileOpen \/ readyState[ws] = "OPEN")
    /\ wcEvent' = "onMessage"
    /\ UNCHANGED <<ws, reconnectAttempts, readyState, reconnectTimers,
                   consecutiveCloses, closeScheduled>>
    /\ UNCHANGED <<autoSockets, wcIo, userDisconnected>>
    /\ UNCHANGED outsideWc

\* a message of the server arrives on the socket s: the 'message' listeners of
\* s run, and a socket without one discards it
Deliver(s) ==
    /\ readyState[s] = "OPEN"
    /\ wcIo' = [op |-> "message", socket |-> s, passed |-> listens(s)]
    /\ wcEvent' = "message"
    /\ UNCHANGED <<ws, reconnectAttempts, readyState, reconnectTimers,
                   consecutiveCloses, closeScheduled>>
    /\ UNCHANGED <<handlers, autoSockets, registeredWhileOpen, userDisconnected>>
    /\ UNCHANGED outsideWc

NextWsClient ==
    \/ Connect
    \/ ReconnectTimerFires
    \/ \E s \in Created : OnOpen(s)
    \/ \E s \in Created : OnError(s)
    \/ \E s \in Created : OnClose(s)
    \/ Disconnect

\* TokenWebSocketService.connectAsClient: new WebSocketClient(url), then
\* client.connect() once
ConnectAsClient ==
    /\ readyState = << >>
    /\ Connect

\* WebSocketClient as TokenWebSocketService uses it: one connect(), then
\* onMessage, send and disconnect while the sockets come and go
NextWsService ==
    \/ ConnectAsClient
    \/ ReconnectTimerFires
    \/ \E s \in Created : OnOpen(s)
    \/ \E s \in Created : OnError(s)
    \/ \E s \in Created : OnClose(s)
    \/ Disconnect
    \/ Send
    \/ OnMessage
    \/ \E s \in Created : Deliver(s)

(***************************************************************************)
(* The relay, hybridCommunicationPlugin (part_001).                        *)
(*                                                                         *)
(* A JavaScript object is a record whose domain is the set of its keys.    *)
(* Wire data is either JSON text, kept as the value it denotes, or text    *)
(* that JSON.parse rejects.                                                *)
(***************************************************************************)
Has(obj, key) == key \in DOMAIN obj

\* mutant: a spread in which the fields of the first object win
SpreadFirstWins(obj, extra) ==
    [k \in DOMAIN obj \cup DOMAIN extra |-> IF k \in DOMAIN obj THEN obj[k] ELSE extra[k]]

\* { ...obj, ...extra }
Spread(obj, extra) ==
    [k \in DOMAIN obj \cup DOMAIN extra |-> IF k \in DOMAIN extra THEN extra[k] ELSE obj[k]]

EmptyObject == [k \in {} |-> 0]
Garbage == [json |-> FALSE]

JSONstringify(value) == [json |-> TRUE, value |-> value]

\* mutant: a parser that turns unparseable text into an empty object
JSONparseLenient(data) ==
    IF data.json THEN [ok |-> TRUE, value |-> data.value]
    ELSE [ok |-> TRUE, value |-> EmptyObject]

\* JSON.parse: ok = FALSE stands for the SyntaxError it throws
JSONparse(data) ==
    IF data.json THEN [ok |-> TRUE, value |-> data.value] ELSE [ok |-> FALSE]

\* `data: ${JSON.stringify(data)}\n\n`
sseMessage(data) == [frame |-> "data", body |-> JSONstringify(data)]
wsMessage(data) == JSONstringify(data)

Ws(i) == <<"ws", i>>
Sse(i) == <<"sse", i>>
WsHandles == {Ws(i) : i \in 1 .. MaxWsClients}
SseHandles == {Sse(i) : i \in 1 .. MaxSseClients}
Handles == WsHandles \cup SseHandles

RelayToken == {[id |-> IdStyle, type |-> "color", value |-> "v1"]}
RelayArrays == SeqsUpTo(RelayToken, MaxRelaySyncLen)
SomeRelayToken == [id |-> IdStyle, type |-> "color", value |-> "v1"]

\* the JSON messages sent to the relay
RelayMessage ==
    {[type |-> "sync", payload |-> [tokens |-> T]] : T \in RelayArrays}
    \cup {[type |-> "sync", payload |-> EmptyObject],
          [type |-> "sync"],
          [type |-> "update", payload |-> [token |-> SomeRelayToken]],
          [type |-> "create", payload |-> [token |-> SomeRelayToken]],
          [type |-> "delete", payload |-> [tokenId |-> IdStyle]],
          [type |-> "request_tokens"],
          \* a sender that stamps its own message
          [type |-> "delete", payload |-> [tokenId |-> IdStyle],
           source |-> "sender", timestamp |-> SenderTime]}

RelayInbound == {JSONstringify(m) : m \in RelayMessage} \cup {Garbage}

\* evaluating `message.type === 'sync' && message.payload.tokens` throws a
\* TypeError when the type is 'sync' and there is no payload to read
storeTestThrows(message) ==
    /\ Has(message, "type") /\ message.type = "sync"
    /\ ~Has(message, "payload")

\* mutant: the push handler never stores
wsShouldStoreNever(message) == FALSE

\* ws.on('message'): if (message.type === 'sync' && message.payload.tokens)
wsShouldStore(message) ==
    /\ Has(message, "type") /\ message.type = "sync"
    /\ Has(message, "payload") /\ Has(message.payload, "tokens")

\* mutant: the POST handler stores only a non-empty array
postShouldStoreNonEmpty(message) ==
    /\ Has(message, "type") /\ message.type = "sync"
    /\ Has(message, "payload") /\ Has(message.payload, "tokens")
    /\ Len(message.payload.tokens) > 0

\* POST /api/tokens: if (message.type === 'sync' && message.payload.tokens)
postShouldStore(message) ==
    /\ Has(message, "type") /\ message.type = "sync"
    /\ Has(message, "payload") /\ Has(message.payload, "tokens")

\* broadcastToAll: the clients on which write / send is called
sseTargets == sseClients
wsTargets == {c \in wsClients : connState[c] = "OPEN"}
broadcastTargets == sseTargets \cup wsTargets

\* mutant: the first throwing write ends the broadcast for everybody
broadcastAbortedByThrow(data, throwing) ==
    /\ sseClients' = sseClients \ (sseTargets \cap throwing)
    /\ wsClients' = wsClients \ (wsTargets \cap throwing)
    /\ inbox' = [c \in Handles |->
                    IF c \in broadcastTargets /\ throwing = {}
                    THEN Append(inbox[c], IF c \in SseHandles THEN sseMessage(data)
                                                              ELSE wsMessage(data))
                    ELSE inbox[c]]

\* broadcastToAll(data): every target is written to; `throwing` are the
\* targets whose write throws (a broken connection): each is deleted from its
\* set, the others receive the message
broadcastToAll(data, throwing) ==
    /\ sseClients' = sseClients \ (sseTargets \cap throwing)
    /\ wsClients' = wsClients \ (wsTargets \cap throwing)
    /\ inbox' = [c \in Handles |->
                    IF c \in broadcastTargets \ throwing
                    THEN Append(inbox[c], IF c \in SseHandles THEN sseMessage(data)
                                                              ELSE wsMessage(data))
                    ELSE inbox[c]]

RECURSIVE SumLen(_, _)
SumLen(f, S) ==
    IF S = {} THEN 0
    ELSE LET c == CHOOSE x \in S : TRUE IN Len(f[c]) + SumLen(f, S \ {c})

\* what a message handler saw before it ran
Before(op, origin) ==
    [op |-> op, origin |-> origin, written |-> SumLen(inbox, Handles),
     tokensBefore |-> currentTokens, wsBefore |-> wsClients, sseBefore |-> sseClients,
     openWs |-> Cardinality(wsTargets), sse |-> Cardinality(sseClients)]

\* the claims' own reading of an inbound text: a sync that carries tokens
CarriesSyncTokens(data) ==
    /\ data.json
    /\ Has(data.value, "type") /\ data.value.type = "sync"
    /\ Has(data.value, "payload") /\ Has(data.value.payload, "tokens")

NoSync == [seen |-> FALSE]
NoResponse == [method |-> "none", status |-> 0]
\* the latest handler was not a message handler
OtherHandler == [op |-> "other"]

RelayInit ==
    /\ wsClients = {}
    /\ sseClients = {}
    /\ currentTokens = <<>>
    /\ connState = [c \in Handles |-> "NONE"]
    /\ inbox = [c \in Handles |-> <<>>]
    /\ httpResponse = NoResponse
    /\ now = StartTime
    /\ relayEvent = OtherHandler
    /\ lastSync = NoSync
    /\ ackedPost = NoSync
    /\ inbound = 0

\* mutant: a new connection is always sent a catch-up message
hasInitialTokensAlways == TRUE

\* if (currentTokens.length > 0), in both connection handlers
hasInitialTokens == Len(currentTokens) > 0

\* the catch-up message of a new connection
initialSync == [type |-> "initial_sync", tokens |-> currentTokens, timestamp |-> now]

\* handles are given out in order
NextHandle(c, handles) ==
    /\ connState[c] = "NONE"
    /\ Cardinality({d \in Handles : connState[d] # "NONE"}) < MaxConnections
    /\ \A d \in handles : d[2] < c[2] => connState[d] # "NONE"

\* wss.on('connection'), the relay's part
wsOnConnection(c) ==
    /\ connState[c] = "NONE"
    /\ connState' = [connState EXCEPT ![c] = "OPEN"]
    /\ wsClients' = wsClients \cup {c}
    /\ inbox' = IF hasInitialTokens
                THEN [inbox EXCEPT ![c] = Append(@, wsMessage(initialSync))]
                ELSE inbox
    /\ httpResponse' = NoResponse
    /\ relayEvent' = OtherHandler
    /\ UNCHANGED <<sseClients, currentTokens, now, lastSync, ackedPost, inbound>>

\* a push client of any kind connects
WsConnection(c) ==
    /\ NextHandle(c, WsHandles)
    /\ wsOnConnection(c)
    /\ UNCHANGED outsideRelay

\* ws.on('message'), the relay's part
wsOnMessage(c, data, throwing) ==
    /\ connState[c] = "OPEN"
    /\ inbound < MaxInbound
    /\ inbound' = inbound + 1
    /\ LET parsed == JSONparse(data)
           thrown == ~parsed.ok \/ storeTestThrows(parsed.value)
       IN  IF thrown
           THEN /\ throwing = {}
                /\ relayEvent' = Spread(Before("ws.message", c),
                                        [data |-> data, broadcast |-> FALSE, attempted |-> {},
                                         threw |-> {}])
                /\ UNCHANGED <<wsClients, sseClients, currentTokens, inbox>>
           ELSE /\ currentTokens' = IF wsShouldStore(parsed.value)
                                    THEN parsed.value.payload.tokens
                                    ELSE currentTokens
                /\ throwing \subseteq broadcastTargets
                /\ broadcastToAll(Spread(parsed.value,
                                         [source |-> "websocket", timestamp |-> now]),
                                  throwing)
                /\ relayEvent' = Spread(Before("ws.message", c),
                                        [data |-> data, broadcast |-> TRUE,
                                         attempted |-> broadcastTargets,
                                         threw |-> throwing])
    /\ lastSync' = IF CarriesSyncTokens(data)
                   THEN [seen |-> TRUE, tokens |-> data.value.payload.tokens]
                   ELSE lastSync
    /\ ackedPost' = IF CarriesSyncTokens(data) THEN NoSync ELSE ackedPost
    /\ httpResponse' = NoResponse
    /\ UNCHANGED <<connState, now>>

\* a push client of any kind sends data
WsOnMessage(c, data, throwing) ==
    /\ wsOnMessage(c, data, throwing)
    /\ UNCHANGED outsideRelay

\* mutant: a delete that leaves the set as it was
deleteNothing(clients, c) == clients

\* Set.prototype.delete
delete(clients, c) == clients \ {c}

\* ws.on('close')
WsOnClose(c) ==
    /\ connState[c] \in {"OPEN", "CLOSING", "ERRORED"}
    /\ connState' = [connState EXCEPT ![c] = "CLOSED"]
    /\ wsClients' = delete(wsClients, c)
    /\ httpResponse' = NoResponse
    /\ relayEvent' = OtherHandler
    /\ UNCHANGED <<sseClients, currentTokens, inbox, now,
                   lastSync, ackedPost, inbound>>
    /\ UNCHANGED outsideRelay

\* ws.on('error'); the socket goes on to close
WsOnError(c) ==
    /\ connState[c] = "OPEN"
    /\ connState' = [connState EXCEPT ![c] = "ERRORED"]
    /\ wsClients' = delete(wsClients, c)
    /\ httpResponse' = NoResponse
    /\ relayEvent' = OtherHandler
    /\ UNCHANGED <<sseClients, currentTokens, inbox, now,
                   lastSync, ackedPost, inbound>>
    /\ UNCHANGED outsideRelay

\* the peer starts closing: readyState is no longer OPEN, no event yet
WsStartsClosing(c) ==
    /\ connState[c] = "OPEN"
    /\ connState' = [connState EXCEPT ![c] = "CLOSING"]
    /\ UNCHANGED <<wsClients, sseClients, currentTokens, inbox, httpResponse,
                   now, relayEvent, lastSync, ackedPost, inbound>>
    /\ UNCHANGED outsideRelay

\* GET /api/stream
SseConnect(r) ==
    /\ NextHandle(r, SseHandles)
    /\ connState' = [connState EXCEPT ![r] = "OPEN"]
    /\ inbox' = IF hasInitialTokens
                THEN [inbox EXCEPT ![r] = Append(@, sseMessage(initialSync))]
                ELSE inbox
    /\ sseClients' = sseClients \cup {r}
    /\ httpResponse' = NoResponse
    /\ relayEvent' = OtherHandler
    /\ UNCHANGED <<wsClients, currentTokens, now,
                   lastSync, ackedPost, inbound>>
    /\ UNCHANGED outsideRelay

\* req.on('close')
SseOnClose(r) ==
    /\ connState[r] \in {"OPEN", "CLOSING", "ERRORED"}
    /\ connState' = [connState EXCEPT ![r] = "CLOSED"]
    /\ sseClients' = delete(sseClients, r)
    /\ httpResponse' = NoResponse
    /\ relayEvent' = OtherHandler
    /\ UNCHANGED <<wsClients, currentTokens, inbox, now,
                   lastSync, ackedPost, inbound>>
    /\ UNCHANGED outsideRelay

\* req.on('error'); the request goes on to close
SseOnError(r) ==
    /\ connState[r] = "OPEN"
    /\ connState' = [connState EXCEPT ![r] = "ERRORED"]
    /\ sseClients' = delete(sseClients, r)
    /\ httpResponse' = NoResponse
    /\ relayEvent' = OtherHandler
    /\ UNCHANGED <<wsClients, currentTokens, inbox, now,
                   lastSync, ackedPost, inbound>>
    /\ UNCHANGED outsideRelay

HttpOrigin == <<"http", 0>>

clientCounts(sseSet, wsSet) ==
    [sse |-> Cardinality(sseSet), ws |-> Cardinality(wsSet),
     total |-> Cardinality(sseSet) + Cardinality(wsSet)]

\* GET /api/tokens
HttpGetTokens ==
    /\ httpResponse' =
          [method |-> "GET", status |-> 200, acao |-> TRUE,
           body |-> [tokens |-> currentTokens, timestamp |-> now,
                     clients |-> clientCounts(sseClients, wsClients)]]
    /\ relayEvent' = OtherHandler
    /\ UNCHANGED <<wsClients, sseClients, currentTokens, connState, inbox,
                   now, lastSync, ackedPost, inbound>>
    /\ UNCHANGED outsideRelay

\* mutant: an acknowledgement that counts the clients before the broadcast
postAckBeforeBroadcast(sseSet, wsSet) ==
    [success |-> TRUE, message |-> "Token received and broadcasted",
     sseClients |-> Cardinality(sseClients), wsClients |-> Cardinality(wsClients),
     totalClients |-> Cardinality(sseClients) + Cardinality(wsClients)]

\* the body of the 200 response to POST /api/tokens, built after broadcastToAll
postAck(sseSet, wsSet) ==
    [success |-> TRUE, message |-> "Token received and broadcasted",
     sseClients |-> Cardinality(sseSet), wsClients |-> Cardinality(wsSet),
     totalClients |-> Cardinality(sseSet) + Cardinality(wsSet)]

\* POST /api/tokens, req.on('end') with the whole body
HttpPostTokens(data, throwing) ==
    /\ inbound < MaxInbound
    /\ inbound' = inbound + 1
    /\ LET parsed == JSONparse(data)
           thrown == ~parsed.ok \/ storeTestThrows(parsed.value)
       IN  IF thrown
           THEN /\ throwing = {}
                /\ httpResponse' = [method |-> "POST", status |-> 400, acao |-> FALSE,
                                    body |-> [error |-> "Invalid JSON"]]
                /\ relayEvent' = Spread(Before("POST", HttpOrigin),
                                        [data |-> data, broadcast |-> FALSE, attempted |-> {},
                                         threw |-> {}])
                /\ UNCHANGED <<wsClients, sseClients, currentTokens, inbox>>
           ELSE /\ currentTokens' = IF postShouldStore(parsed.value)
                                    THEN parsed.value.payload.tokens
                                    ELSE currentTokens
                /\ throwing \subseteq broadcastTargets
                /\ broadcastToAll(Spread(parsed.value,
                                         [source |-> "figma", timestamp |-> now]),
                                  throwing)
                /\ httpResponse' =
                      [method |-> "POST", status |-> 200, acao |-> TRUE,
                       body |-> postAck(sseClients', wsClients')]
                /\ relayEvent' = Spread(Before("POST", HttpOrigin),
                                        [data |-> data, broadcast |-> TRUE,
                                         attempted |-> broadcastTargets,
                                         threw |-> throwing])
    /\ lastSync' = IF CarriesSyncTokens(data)
                   THEN [seen |-> TRUE, tokens |-> data.value.payload.tokens]
                   ELSE lastSync
    /\ ackedPost' = IF CarriesSyncTokens(data)
                    THEN IF httpResponse'.status = 200
                         THEN [seen |-> TRUE, tokens |-> data.value.payload.tokens]
                         ELSE NoSync
                    ELSE ackedPost
    /\ UNCHANGED <<connState, now>>
    /\ UNCHANGED outsideRelay

\* OPTIONS /api/tokens
HttpOptions ==
    /\ httpResponse' = [method |-> "OPTIONS", status |-> 200, acao |-> TRUE,
                        body |-> EmptyObject]
    /\ relayEvent' = OtherHandler
    /\ UNCHANGED <<wsClients, sseClients, currentTokens, connState, inbox,
                   now, lastSync, ackedPost, inbound>>
    /\ UNCHANGED outsideRelay

\* any other method on /api/tokens, any method but GET on /api/stream: next()
HttpNext ==
    /\ httpResponse' = [method |-> "other", status |-> 0]
    /\ relayEvent' = OtherHandler
    /\ UNCHANGED <<wsClients, sseClients, currentTokens, connState, inbox,
                   now, lastSync, ackedPost, inbound>>
    /\ UNCHANGED outsideRelay

\* time passes
Tick ==
    /\ now < StartTime + MaxTicks * TickMs
    /\ now' = now + TickMs
    /\ UNCHANGED <<wsClients, sseClients, currentTokens, connState, inbox,
                   httpResponse, relayEvent, lastSync, ackedPost, inbound>>
    /\ UNCHANGED <<storeVars, wcVars, linkVars, pushVars, pollVars, sharedVars, envVars>>

NextRelay ==
    \/ \E c \in WsHandles : WsConnection(c)
    \/ \E c \in WsHandles, data \in RelayInbound, throwing \in SUBSET Handles :
            WsOnMessage(c, data, throwing)
    \/ \E c \in WsHandles : WsOnClose(c)
    \/ \E c \in WsHandles : WsOnError(c)
    \/ \E c \in WsHandles : WsStartsClosing(c)
    \/ \E r \in SseHandles : SseConnect(r)
    \/ \E r \in SseHandles : SseOnClose(r)
    \/ \E r \in SseHandles : SseOnError(r)
    \/ HttpGetTokens
    \/ \E data \in RelayInbound, throwing \in SUBSET Handles :
            HttpPostTokens(data, throwing)
    \/ HttpOptions
    \/ HttpNext

(***************************************************************************)
(* useTokens, the web-app hook (part_002).                                 *)
(***************************************************************************)
minSyncInterval == 1000

\* String.prototype.startsWith / includes on ids kept as character sequences
startsWith(str, prefix) ==
    /\ Len(str) >= Len(prefix)
    /\ SubSeq(str, 1, Len(prefix)) = prefix

includes(str, part) ==
    \E i \in 1 .. (Len(str) - Len(part) + 1) : SubSeq(str, i, i + Len(part) - 1) = part

PrefixS == <<"S", ":">>
PrefixT == <<"T", ":">>
PrefixDebug == <<"d", "e", "b", "u", "g", "-">>
PartVariableID == <<"V", "a", "r", "i", "a", "b", "l", "e", "I", "D", ":">>

\* export type TokenType = 'color' | 'dimension' | ... | 'typography'
TokenType ==
    {"color", "dimension", "fontFamily", "fontWeight", "duration", "cubicBezier",
     "number", "strokeStyle", "border", "transition", "shadow", "gradient", "typography"}

\* convertDesignToken's typeMapping[designToken.type] || 'dimension'
typeMapping(type) ==
    CASE type = "color" -> "color"
      [] type = "typography" -> "typography"
      [] type = "dimension" -> "dimension"
      [] type = "fontFamily" -> "fontFamily"
      [] type = "fontWeight" -> "fontWeight"
      [] type = "number" -> "number"
      [] type = "string" -> "fontFamily"
      [] type = "boolean" -> "number"
      [] OTHER -> "dimension"

\* TokenWithId {id, name, $type, $value, $description}
convertDesignToken(designToken) ==
    [id |-> designToken.id, dtcgType |-> typeMapping(designToken.type),
     dtcgValue |-> designToken.value]

\* figmaTokens.map(convertDesignToken)
RECURSIVE mapConvert(_)
mapConvert(arr) ==
    IF arr = <<>> THEN <<>>
    ELSE <<convertDesignToken(Head(arr))>> \o mapConvert(Tail(arr))

\* mutant: only an exact id match marks a token as coming from the tool
isFigmaTokenByIdOnly(t, incomingTokenIds) == t.id \in incomingTokenIds

\* const isFigmaToken = t.id.startsWith('S:') || ... || incomingTokenIds.has(t.id)
isFigmaToken(t, incomingTokenIds) ==
    \/ startsWith(t.id, PrefixS)
    \/ startsWith(t.id, PrefixT)
    \/ startsWith(t.id, PrefixDebug)
    \/ includes(t.id, PartVariableID)
    \/ t.id \in incomingTokenIds

\* mutant: a filter that keeps every previous token
manualTokensUnfiltered(prev, incomingTokenIds) == prev

\* prevTokens.filter(t => !isFigmaToken)
RECURSIVE manualTokens(_, _)
manualTokens(prev, incomingTokenIds) ==
    IF prev = <<>> THEN <<>>
    ELSE IF ~isFigmaToken(Head(prev), incomingTokenIds)
         THEN <<Head(prev)>> \o manualTokens(Tail(prev), incomingTokenIds)
         ELSE manualTokens(Tail(prev), incomingTokenIds)

\* mutant: a merge that keeps every previous token
mergeSyncKeepingAll(prev, convertedTokens) == prev \o convertedTokens

\* the updater passed to setTokens: [...manualTokens, ...convertedTokens]
mergeSync(prev, convertedTokens) ==
    manualTokens(prev, IdsOf(convertedTokens)) \o convertedTokens

\* if (message.type === 'sync' && message.payload?.tokens)
isSyncWithTokens(message) ==
    /\ Has(message, "type") /\ message.type = "sync"
    /\ Has(message, "payload") /\ Has(message.payload, "tokens")

\* if (timeSinceLastSync < 1000) return, with lastSyncTime as the closure
\* of the effect sees it
throttled(at) == at - closureLastSyncTime < minSyncInterval

NoHookEvent == [op |-> "none"]

\* mutant: the error handler leaves the flag as it is
connectedAfterIgnoringError(event, flag) ==
    IF event = "open" THEN TRUE ELSE IF event = "error" THEN flag ELSE FALSE

\* setWsConnected(true) in ws.onopen, setWsConnected(false) in ws.onclose and
\* in ws.onerror
connectedAfter(event, flag) == event = "open"

\* mutant: after the third socket a close schedules nothing
timersAfterCloseCapped(timers, sockets) ==
    IF Len(sockets) < 3 THEN timers + 1 ELSE timers

\* ws.onclose: setTimeout(connectWebSocket, 3000), whatever came before
timersAfterClose(timers, sockets) == timers + 1

HookInit ==
    /\ tokens = <<>>
    /\ wsConnected = FALSE
    /\ lastSyncTime = 0
    /\ closureLastSyncTime = 0
    /\ hookPhase = "init"
    /\ hookSockets = <<>>
    /\ hookWs = 0
    /\ hookTimers = 0
    /\ hookOutbox = <<>>
    /\ hookRead = <<>>
    /\ hookEvent = NoHookEvent

\* connectWebSocket(): ws = new WebSocket(...), handlers attached
connectWebSocket ==
    /\ Len(hookSockets) < hookBudget
    /\ hookSockets' = Append(hookSockets, "CONNECTING")
    /\ hookOutbox' = Append(hookOutbox, <<>>)
    /\ hookRead' = Append(hookRead, 0)
    /\ hookWs' = Len(hookSockets) + 1

\* ws.onmessage, the hook's part: the effect of one message on the hook
onmessage(data) ==
    LET parsed == JSONparse(data)
    IN  IF parsed.ok /\ isSyncWithTokens(parsed.value)
        THEN IF throttled(now)
             THEN /\ hookEvent' = [op |-> "sync", at |-> now, prior |-> lastSyncTime,
                                   applied |-> FALSE, before |-> tokens,
                                   incoming |-> parsed.value.payload.tokens]
                  /\ UNCHANGED <<tokens, lastSyncTime>>
             ELSE /\ lastSyncTime' = now
                  /\ tokens' = mergeSync(tokens, mapConvert(parsed.value.payload.tokens))
                  /\ hookEvent' = [op |-> "sync", at |-> now, prior |-> lastSyncTime,
                                   applied |-> TRUE, before |-> tokens,
                                   incoming |-> parsed.value.payload.tokens]
        ELSE /\ hookEvent' = [op |-> "ignored"]
             /\ UNCHANGED <<tokens, lastSyncTime>>

\* what the hook sends when its socket opens
RequestTokens == JSONstringify([type |-> "request_tokens"])

\* the tokens a stand-alone hook is sent, and the messages carrying them
HookDesignToken ==
    {[id |-> IdStyle, type |-> "color", value |-> "v1"],
     [id |-> IdPlain, type |-> "duration", value |-> "v2"],
     [id |-> IdText, type |-> "string", value |-> "v1"],
     [id |-> IdDebug, type |-> "color", value |-> "v1"],
     [id |-> IdVariable, type |-> "boolean", value |-> "v1"]}

\* the token arrays of those messages: every array of at most one token, and
\* the longer ones over the style token and the plain-id token
HookArrays ==
    SeqsUpTo(HookDesignToken, 1)
    \cup SeqsUpTo({t \in HookDesignToken : t.id \in {IdStyle, IdPlain}}, MaxSyncLen)

HookInbound ==
    {JSONstringify([type |-> "sync", payload |-> [tokens |-> T],
                    source |-> "figma", timestamp |-> StartTime]) :
        T \in HookArrays}
    \cup {JSONstringify([type |-> "initial_sync",
                         tokens |-> <<[id |-> IdStyle, type |-> "color", value |-> "v1"]>>,
                         timestamp |-> StartTime]),
          JSONstringify([type |-> "update",
                         payload |-> [token |-> [id |-> IdStyle, type |-> "color",
                                                 value |-> "v1"]],
                         source |-> "figma", timestamp |-> StartTime]),
          Garbage}

\* the token addToken appends: id: crypto.randomUUID()
ManualToken == [id |-> IdManual, dtcgType |-> "color", dtcgValue |-> "v1"]

\* useEffect(() => { ... connectWebSocket() ... }, [convertDesignToken])
HookMount ==
    /\ hookPhase = "init"
    /\ hookPhase' = "mounted"
    /\ closureLastSyncTime' = lastSyncTime
    /\ connectWebSocket
    /\ UNCHANGED <<tokens, wsConnected, lastSyncTime, hookTimers, hookEvent, now>>
    /\ UNCHANGED outsideHook

\* the effect's cleanup: if (ws) ws.close()
HookUnmount ==
    /\ hookPhase = "mounted"
    /\ hookPhase' = "unmounted"
    /\ hookSockets' = IF hookWs # 0
                      THEN [hookSockets EXCEPT
                              ![hookWs] = IF @ \in {"CONNECTING", "OPEN"} THEN "CLOSING" ELSE @]
                      ELSE hookSockets
    /\ UNCHANGED <<tokens, wsConnected, lastSyncTime, closureLastSyncTime, hookWs,
                   hookTimers, hookOutbox, hookRead, hookEvent, now>>
    /\ UNCHANGED outsideHook

\* ws.onopen, the hook's part
onopen(k) ==
    /\ hookSockets[k] = "CONNECTING"
    /\ hookSockets' = [hookSockets EXCEPT ![k] = "OPEN"]
    /\ wsConnected' = connectedAfter("open", wsConnected)
    /\ hookOutbox' = IF hookWs # 0 /\ (hookWs = k \/ hookSockets[hookWs] = "OPEN")
                     THEN [hookOutbox EXCEPT ![hookWs] = Append(@, RequestTokens)]
                     ELSE hookOutbox
    /\ UNCHANGED <<tokens, lastSyncTime, closureLastSyncTime, hookPhase, hookWs,
                   hookTimers, hookRead, hookEvent>>

HookOnOpen(k) ==
    /\ onopen(k)
    /\ UNCHANGED now
    /\ UNCHANGED outsideHook

\* ws.onmessage with a message from outside the model
HookOnMessage(k, data) ==
    /\ hookSockets[k] = "OPEN"
    /\ hookRead[k] < MaxHookSyncs
    /\ hookRead' = [hookRead EXCEPT ![k] = @ + 1]
    /\ onmessage(data)
    /\ UNCHANGED <<wsConnected, closureLastSyncTime, hookPhase, hookSockets, hookWs,
                   hookTimers, hookOutbox, now>>
    /\ UNCHANGED outsideHook

\* ws.onerror; the socket goes on to close
HookOnError(k) ==
    /\ hookSockets[k] \in {"CONNECTING", "OPEN"}
    /\ hookSockets' = [hookSockets EXCEPT ![k] = "CLOSING"]
    /\ wsConnected' = connectedAfter("error", wsConnected)
    /\ UNCHANGED <<tokens, lastSyncTime, closureLastSyncTime, hookPhase, hookWs,
                   hookTimers, hookOutbox, hookRead, hookEvent, now>>
    /\ UNCHANGED outsideHook

\* ws.onclose: setTimeout(connectWebSocket, 3000)
HookOnClose(k) ==
    /\ hookSockets[k] \in {"OPEN", "CLOSING"}
    /\ hookSockets' = [hookSockets EXCEPT ![k] = "CLOSED"]
    /\ wsConnected' = connectedAfter("close", wsConnected)
    /\ hookTimers' = timersAfterClose(hookTimers, hookSockets)
    /\ UNCHANGED <<tokens, lastSyncTime, closureLastSyncTime, hookPhase, hookWs,
                   hookOutbox, hookRead, hookEvent, now>>
    /\ UNCHANGED outsideHook

\* the reconnect timer fires: connectWebSocket()
HookReconnectTimer ==
    /\ hookTimers > 0
    /\ hookTimers' = hookTimers - 1
    /\ connectWebSocket
    /\ UNCHANGED <<tokens, wsConnected, lastSyncTime, closureLastSyncTime, hookPhase,
                   hookEvent, now>>
    /\ UNCHANGED outsideHook

\* addToken(token)
AddToken ==
    /\ hookPhase # "init"
    /\ Len(tokens) < MaxHookLen
    /\ tokens' = Append(tokens, ManualToken)
    /\ UNCHANGED <<wsConnected, lastSyncTime, closureLastSyncTime, hookPhase, hookSockets,
                   hookWs, hookTimers, hookOutbox, hookRead, hookEvent, now>>
    /\ UNCHANGED outsideHook

\* prev.map(token => token.id === id ? { ...token, ...updates } : token)
mapUpdate(prev, id, updates) ==
    [i \in 1 .. Len(prev) |-> IF prev[i].id = id THEN Spread(prev[i], updates) ELSE prev[i]]

\* what the page passes to updateToken and importTokens
TokenUpdates == [dtcgValue |-> "v2"]
ImportedTokens == <<[id |-> IdPlain, dtcgType |-> "color", dtcgValue |-> "v1"]>>

\* updateToken(id, updates)
UpdateToken(id) ==
    /\ hookPhase # "init"
    /\ tokens' = mapUpdate(tokens, id, TokenUpdates)
    /\ UNCHANGED <<wsConnected, lastSyncTime, closureLastSyncTime, hookPhase, hookSockets,
                   hookWs, hookTimers, hookOutbox, hookRead, hookEvent, now>>
    /\ UNCHANGED outsideHook

\* deleteToken(id)
DeleteToken(id) ==
    /\ hookPhase # "init"
    /\ tokens' = SelectSeq(tokens, LAMBDA token : token.id # id)
    /\ UNCHANGED <<wsConnected, lastSyncTime, closureLastSyncTime, hookPhase, hookSockets,
                   hookWs, hookTimers, hookOutbox, hookRead, hookEvent, now>>
    /\ UNCHANGED outsideHook

\* importTokens(newTokens, replaceAll)
ImportTokens(newTokens, replaceAll) ==
    /\ hookPhase # "init"
    /\ replaceAll \/ Len(tokens) < MaxHookLen
    /\ tokens' = IF replaceAll THEN newTokens ELSE tokens \o newTokens
    /\ UNCHANGED <<wsConnected, lastSyncTime, closureLastSyncTime, hookPhase, hookSockets,
                   hookWs, hookTimers, hookOutbox, hookRead, hookEvent, now>>
    /\ UNCHANGED outsideHook

\* clearAllTokens()
ClearAllTokens ==
    /\ hookPhase # "init"
    /\ tokens' = <<>>
    /\ UNCHANGED <<wsConnected, lastSyncTime, closureLastSyncTime, hookPhase, hookSockets,
                   hookWs, hookTimers, hookOutbox, hookRead, hookEvent, now>>
    /\ UNCHANGED outsideHook

\* time passes
HookTick ==
    /\ Tick
    /\ UNCHANGED hookVars

\* the relay starts or stops accepting connections
RelayComesUp ==
    /\ ~relayUp
    /\ relayUp' = TRUE
    /\ UNCHANGED <<storeVars, wcVars, relayVars, hookVars, linkVars, pushVars, pollVars,
                   sharedVars, hookBudget>>

RelayGoesDown ==
    /\ relayUp
    /\ relayUp' = FALSE
    /\ UNCHANGED <<storeVars, wcVars, relayVars, hookVars, linkVars, pushVars, pollVars,
                   sharedVars, hookBudget>>

\* the connection attempt of socket k succeeds: the relay is up
AttemptSucceeds(k) ==
    /\ relayUp
    /\ HookOnOpen(k)

\* socket k fails: the attempt is refused or the connection is lost, the relay
\* being down
ConnectionFails(k) ==
    /\ ~relayUp
    /\ HookOnError(k)

\* the close event of socket k: after its error event, or on its own when the
\* relay being down ends the connection
ConnectionCloses(k) ==
    /\ hookSockets[k] = "CLOSING" \/ ~relayUp
    /\ HookOnClose(k)

\* the hook and a relay that comes and goes
NextReconnect ==
    \/ HookMount
    \/ RelayComesUp
    \/ RelayGoesDown
    \/ \E k \in DOMAIN hookSockets : AttemptSucceeds(k)
    \/ \E k \in DOMAIN hookSockets : ConnectionFails(k)
    \/ \E k \in DOMAIN hookSockets : ConnectionCloses(k)
    \/ HookReconnectTimer

\* the hook receiving on its open socket, nothing else happening
NextMerge ==
    \/ \E k \in DOMAIN hookSockets, data \in HookInbound : HookOnMessage(k, data)

NextHook ==
    \/ HookMount
    \/ HookUnmount
    \/ \E k \in DOMAIN hookSockets : HookOnOpen(k)
    \/ \E k \in DOMAIN hookSockets, data \in HookInbound : HookOnMessage(k, data)
    \/ \E k \in DOMAIN hookSockets : HookOnError(k)
    \/ \E k \in DOMAIN hookSockets : HookOnClose(k)
    \/ HookReconnectTimer
    \/ AddToken
    \/ HookTick

(***************************************************************************)
(* The hook connected to the relay: new WebSocket('ws://localhost:8080')   *)
(* (part_002 line 91) reaches new WebSocketServer({ port: 8080 })          *)
(* (part_001 line 45). The hook's k-th socket is the relay's client Ws(k): *)
(* what the relay writes to Ws(k) the hook's ws.onmessage handles in       *)
(* order, what the hook sends the relay's ws.on('message') handles.        *)
(***************************************************************************)
NoSyncEvent == [op |-> "none"]

LinkInit ==
    /\ catchUp = [k \in 1..MaxWsClients |-> <<>>]
    /\ syncEvent = NoSyncEvent

\* what the Figma plugin posts while the hook is connected: whole snapshots
LinkInbound ==
    {JSONstringify([type |-> "sync", payload |-> [tokens |-> T]]) : T \in RelayArrays}

\* the relay accepts the hook's k-th socket: wss.on('connection')
LinkConnection(k) ==
    /\ hookSockets[k] = "CONNECTING"
    /\ wsOnConnection(Ws(k))
    /\ catchUp' = [catchUp EXCEPT ![k] = currentTokens]
    /\ UNCHANGED <<storeVars, wcVars, hookVars, syncEvent, pushVars, pollVars, sharedVars, envVars>>

\* ws.onopen of a socket the relay has accepted
LinkOnOpen(k) ==
    /\ connState[Ws(k)] # "NONE"
    /\ onopen(k)
    /\ UNCHANGED now
    /\ UNCHANGED outsideHook

\* the relay's ws.on('message') with the oldest message the hook sent
LinkRelayReceives(k, throwing) ==
    /\ hookOutbox[k] # <<>>
    /\ wsOnMessage(Ws(k), Head(hookOutbox[k]), throwing)
    /\ hookOutbox' = [hookOutbox EXCEPT ![k] = Tail(@)]
    /\ UNCHANGED <<tokens, wsConnected, lastSyncTime, closureLastSyncTime, hookPhase,
                   hookSockets, hookWs, hookTimers, hookRead, hookEvent>>
    /\ UNCHANGED <<storeVars, wcVars, linkVars, pushVars, pollVars, sharedVars, envVars>>

\* the hook's ws.onmessage with the next message the relay wrote to the socket
LinkHookReceives(k) ==
    /\ hookSockets[k] = "OPEN"
    /\ hookRead[k] < Len(inbox[Ws(k)])
    /\ hookRead' = [hookRead EXCEPT ![k] = @ + 1]
    /\ onmessage(inbox[Ws(k)][hookRead[k] + 1])
    /\ syncEvent' = IF hookRead[k] = 0 /\ Len(catchUp[k]) > 0
                    THEN [op |-> "catch-up", socket |-> k, snapshot |-> catchUp[k],
                          data |-> inbox[Ws(k)][1]]
                    ELSE [op |-> "broadcast", socket |-> k]
    /\ UNCHANGED <<wsConnected, closureLastSyncTime, hookPhase, hookSockets, hookWs,
                   hookTimers, hookOutbox, now>>
    /\ UNCHANGED <<storeVars, wcVars, wsClients, sseClients, currentTokens, connState,
                   inbox, httpResponse, relayEvent, lastSync, ackedPost, inbound, catchUp,
                   pushVars, pollVars, sharedVars, envVars>>

NextLink ==
    \/ HookMount
    \/ HookUnmount
    \/ \E k \in DOMAIN hookSockets : LinkConnection(k)
    \/ \E k \in DOMAIN hookSockets : LinkOnOpen(k)
    \/ \E k \in DOMAIN hookSockets, throwing \in SUBSET Handles :
            LinkRelayReceives(k, throwing)
    \/ \E k \in DOMAIN hookSockets : LinkHookReceives(k)
    \/ \E k \in DOMAIN hookSockets : HookOnError(k)
    \/ \E k \in DOMAIN hookSockets : HookOnClose(k)
    \/ HookReconnectTimer
    \/ AddToken
    \/ \E c \in WsHandles : WsOnClose(c)
    \/ \E c \in WsHandles : WsOnError(c)
    \/ \E data \in LinkInbound, throwing \in SUBSET Handles :
            HttpPostTokens(data, throwing)


(***************************************************************************)
(* The page editing tokens while its hook is connected to the relay:       *)
(* TokensPage calls addToken, updateToken, deleteToken, importTokens and   *)
(* clearAllTokens of useTokens (TokensPage.tsx lines 58-99, 200).          *)
(***************************************************************************)
NextApp ==
    \/ HookMount
    \/ \E k \in DOMAIN hookSockets : LinkConnection(k)
    \/ \E k \in DOMAIN hookSockets : LinkOnOpen(k)
    \/ \E k \in DOMAIN hookSockets, throwing \in SUBSET Handles :
            LinkRelayReceives(k, throwing)
    \/ \E k \in DOMAIN hookSockets : LinkHookReceives(k)
    \/ \E k \in DOMAIN hookSockets : HookOnClose(k)
    \/ HookReconnectTimer
    \/ AddToken
    \/ \E id \in {IdManual, IdPlain} : UpdateToken(id)
    \/ \E id \in {IdManual, IdPlain} : DeleteToken(id)
    \/ \E replaceAll \in BOOLEAN : ImportTokens(ImportedTokens, replaceAll)
    \/ ClearAllTokens

(***************************************************************************)
(* Push clients that send several messages: what a client sends on its     *)
(* socket arrives at the relay in the order sent (one TCP connection), and *)
(* each arrival is one 'message' event, handled by ws.on('message') to its *)
(* end, broadcast included, before the next event is taken.                *)
(***************************************************************************)
PushInit ==
    /\ wire = [c \in WsHandles |-> <<>>]
    /\ handledLog = [c \in WsHandles |-> <<>>]

\* how many messages client c has sent so far
sentBy(c) == Len(handledLog[c]) + Len(wire[c])

\* what a push client sends: its n-th message names the sender and n, so that
\* a receiver can tell the messages apart
PushMessage(c, n) ==
    {JSONstringify([type |-> "update", payload |-> [token |-> SomeRelayToken],
                    from |-> c, seq |-> n]),
     JSONstringify([type |-> "sync", payload |-> [tokens |-> <<SomeRelayToken>>],
                    from |-> c, seq |-> n])}

\* mutant: the event loop takes the newest arrival first
nextEventNewestFirst(queue) == Len(queue)

\* the 'message' event the event loop takes next: the oldest arrival
nextEvent(queue) == 1

\* the queue without its i-th element
without(queue, i) == SubSeq(queue, 1, i - 1) \o SubSeq(queue, i + 1, Len(queue))

\* a connected client calls ws.send(data)
PushSend(c, data) ==
    /\ connState[c] = "OPEN"
    /\ sentBy(c) < MaxSent
    /\ wire' = [wire EXCEPT ![c] = Append(@, [n |-> sentBy(c) + 1, data |-> data])]
    /\ UNCHANGED <<handledLog, relayVars>>
    /\ UNCHANGED outsidePush

\* ws.on('message') with the next arrival of connection c
PushOnMessage(c, throwing) ==
    /\ wire[c] # <<>>
    /\ LET i == nextEvent(wire[c])
       IN  /\ wsOnMessage(c, wire[c][i].data, throwing)
           /\ wire' = [wire EXCEPT ![c] = without(@, i)]
           /\ handledLog' = [handledLog EXCEPT ![c] = Append(@, wire[c][i].n)]
    /\ UNCHANGED outsidePush

NextPush ==
    \/ \E c \in WsHandles : WsConnection(c)
    \/ \E c \in WsHandles : \E data \in PushMessage(c, sentBy(c) + 1) : PushSend(c, data)
    \/ \E c \in WsHandles, throwing \in SUBSET Handles : PushOnMessage(c, throwing)
    \/ \E c \in WsHandles : WsOnClose(c)
    \/ \E r \in SseHandles : SseConnect(r)
    \/ \E data \in LinkInbound, throwing \in SUBSET Handles :
            HttpPostTokens(data, throwing)

(***************************************************************************)
(* HybridClient: the plugin's polling client (figma-plugin/src/code.ts).   *)
(* A loop is one chain of setTimeout(pollForUpdates, ...) calls started by *)
(* connectPolling. Timers fire when they are due; a fetch settles whenever *)
(* the relay answers or the network fails, which may be never.             *)
(***************************************************************************)
initialPollDelay == 1000    \* setTimeout(pollForUpdates, 1000)
pollInterval == 3000        \* setTimeout(pollForUpdates, 3000)
PollTickMs == initialPollDelay

\* how a GET can settle: 200 with tokens, 200 without, a status that is not
\* ok, a rejected fetch, a handler or response.json() that throws
FetchOutcome == {"tokens", "empty", "notOk", "rejected", "throws"}

\* figma.ui.postMessage(...) of connectPolling, of a poll that found tokens
NothingPosted == [type |-> "none"]
StatusConnected == [type |-> "CONNECTION_STATUS", connected |-> TRUE]
StatusErrored == [type |-> "CONNECTION_STATUS", connected |-> FALSE]
RealTimeUpdate == [type |-> "REAL_TIME_UPDATE"]
SyncStatus == [type |-> "SYNC_STATUS", success |-> TRUE]

\* how a POST of send() can settle: 200, a status that is not ok, a rejected
\* fetch
SendOutcome == {"ok", "notOk", "rejected"}

\* what send() posts to the UI once its fetch has settled
postedAfterSend(outcome) == IF outcome = "ok" THEN SyncStatus ELSE StatusErrored

\* the connection status the UI was last given, after send() has posted
connectedAfterSend(outcome, latest) == IF outcome = "ok" THEN latest ELSE "false"

\* if (data.tokens && data.tokens.length > 0): the handlers are called
dispatches(outcome) == outcome = "tokens"

\* what pollForUpdates posts to the UI once its fetch has settled
postedAfterPoll(outcome, latest) == IF outcome = "tokens" THEN RealTimeUpdate ELSE latest

PollInit ==
    /\ isConnected = FALSE
    /\ pollClock = 0
    /\ loops = <<>>
    /\ uiPosted = NothingPosted
    /\ uiConnected = "none"
    /\ posts = 0

\* mutant: the next poll is due one interval after the previous one was issued
nextPollDueFromIssue(issuedAt, finishedAt) == issuedAt + pollInterval

\* setTimeout(pollForUpdates, 3000) at the end of pollForUpdates
nextPollDue(issuedAt, finishedAt) == finishedAt + pollInterval

\* connect(): connectPolling() arms the first timer, then isConnected = true
PollConnect ==
    /\ Len(loops) < MaxLoops
    /\ loops' = Append(loops, [phase |-> "timer", due |-> pollClock + initialPollDelay,
                               armedAt |-> pollClock, polls |-> 0, outstanding |-> 0,
                               issuedAt |-> 0, waitedFrom |-> 0, settled |-> "none",
                               shown |-> NothingPosted, dispatched |-> FALSE,
                               live |-> TRUE])
    /\ uiPosted' = StatusConnected
    /\ uiConnected' = "true"
    /\ isConnected' = TRUE
    /\ UNCHANGED <<pollClock, posts>>
    /\ UNCHANGED outsidePoll

\* disconnect()
PollDisconnect ==
    /\ isConnected
    /\ isConnected' = FALSE
    /\ UNCHANGED <<pollClock, loops, uiPosted, uiConnected, posts>>
    /\ UNCHANGED outsidePoll

\* the timer of loop l fires: pollForUpdates runs up to its await fetch(...)
PollTimerFires(l) ==
    /\ loops[l].phase = "timer"
    /\ loops[l].due <= pollClock
    /\ loops' = [loops EXCEPT ![l] =
                    IF ~isConnected
                    THEN [@ EXCEPT !.phase = "ended"]
                    ELSE [@ EXCEPT !.phase = "fetching",
                                   !.polls = @ + 1,
                                   !.outstanding = @ + 1,
                                   !.issuedAt = pollClock,
                                   !.waitedFrom = loops[l].armedAt]]
    /\ UNCHANGED <<isConnected, pollClock, uiPosted, uiConnected, posts>>
    /\ UNCHANGED outsidePoll

\* the fetch of loop l settles: the rest of pollForUpdates runs and arms the
\* next timer
PollFetchSettles(l, outcome) ==
    /\ loops[l].phase = "fetching"
    /\ loops' = [loops EXCEPT ![l] =
                    [@ EXCEPT !.phase = "timer",
                              !.outstanding = @ - 1,
                              !.due = nextPollDue(loops[l].issuedAt, pollClock),
                              !.armedAt = pollClock,
                              !.settled = outcome,
                              !.shown = postedAfterPoll(outcome, uiPosted),
                              !.dispatched = dispatches(outcome),
                              !.live = isConnected]]
    /\ uiPosted' = postedAfterPoll(outcome, uiPosted)
    /\ UNCHANGED <<isConnected, pollClock, uiConnected, posts>>
    /\ UNCHANGED outsidePoll

\* time passes; a timer that is due fires before time passes further
PollTick ==
    /\ pollClock < MaxPollClock
    /\ \A l \in DOMAIN loops : loops[l].phase = "timer" => loops[l].due > pollClock
    /\ pollClock' = pollClock + PollTickMs
    /\ UNCHANGED <<isConnected, loops, uiPosted, uiConnected, posts>>
    /\ UNCHANGED outsidePoll

\* send(message) up to its await fetch(...)
PollSend ==
    /\ posts < MaxPosts
    /\ posts' = posts + 1
    /\ UNCHANGED <<isConnected, pollClock, loops, uiPosted, uiConnected>>
    /\ UNCHANGED outsidePoll

\* a POST settles: the rest of send() runs
PollSendSettles(outcome) ==
    /\ posts > 0
    /\ posts' = posts - 1
    /\ uiPosted' = postedAfterSend(outcome)
    /\ uiConnected' = connectedAfterSend(outcome, uiConnected)
    /\ UNCHANGED <<isConnected, pollClock, loops>>
    /\ UNCHANGED outsidePoll

\* FigmaPluginController.init: await this.hybridClient.connect(), once
ControllerConnect ==
    /\ loops = <<>>
    /\ PollConnect

\* the plugin: one connect(), its polling loop, and the syncs it sends
NextPlugin ==
    \/ ControllerConnect
    \/ \E l \in DOMAIN loops : PollTimerFires(l)
    \/ \E l \in DOMAIN loops, outcome \in FetchOutcome : PollFetchSettles(l, outcome)
    \/ PollTick
    \/ PollSend
    \/ \E outcome \in SendOutcome : PollSendSettles(outcome)

NextPoll ==
    \/ PollConnect
    \/ PollDisconnect
    \/ \E l \in DOMAIN loops : PollTimerFires(l)
    \/ \E l \in DOMAIN loops, outcome \in FetchOutcome : PollFetchSettles(l, outcome)
    \/ PollTick

(***************************************************************************)
(* The shared WebSocketServer (part_007 lines 79-120): a client set, and   *)
(* for every connection a message handler that parses the frame and        *)
(* broadcasts it with the connection as sender, and a close handler that   *)
(* deletes the connection. Connections are numbered in the order in which  *)
(* the server accepts them.                                                *)
(***************************************************************************)
SharedMessage == {[type |-> "sync", payload |-> [tokens |-> << >>]],
                  [type |-> "delete", payload |-> [id |-> "t1"]]}

\* the frames a connection can deliver: JSON text of a message, or other text
SharedFrames == {JSONstringify(m) : m \in SharedMessage} \cup {Garbage}

NothingHandled == [sender |-> 0, data |-> Garbage, n |-> 0]

SharedInit ==
    /\ sharedClients = {}
    /\ sharedSockets = << >>
    /\ sharedInbox = << >>
    /\ sharedHandled = NothingHandled

\* mutant: a broadcast that does not leave out the sender
broadcastTargetsWithSender(sender) ==
    {client \in sharedClients : sharedSockets[client] = "OPEN"}

\* broadcast: if (client !== sender && client.readyState === WebSocket.OPEN)
broadcastTargetsExcept(sender) ==
    {client \in sharedClients : client # sender /\ sharedSockets[client] = "OPEN"}

\* broadcast(message, sender): client.send(JSON.stringify(message))
broadcast(message, sender) ==
    sharedInbox' = [client \in DOMAIN sharedInbox |->
                       IF client \in broadcastTargetsExcept(sender)
                       THEN Append(sharedInbox[client], JSONstringify(message))
                       ELSE sharedInbox[client]]

\* wss.on('connection'): this.clients.add(ws)
SharedOnConnection ==
    /\ Len(sharedSockets) < MaxSharedSockets
    /\ sharedSockets' = Append(sharedSockets, "OPEN")
    /\ sharedClients' = sharedClients \cup {Len(sharedSockets) + 1}
    /\ sharedInbox' = Append(sharedInbox, << >>)
    /\ UNCHANGED sharedHandled
    /\ UNCHANGED outsideShared

\* ws.on('message') of connection s: a frame that does not parse is logged
SharedOnMessage(s, data) ==
    /\ sharedSockets[s] = "OPEN"
    /\ sharedHandled.n < MaxSharedHandled
    /\ LET parsed == JSONparse(data)
       IN  IF parsed.ok THEN broadcast(parsed.value, s)
                        ELSE UNCHANGED sharedInbox
    /\ sharedHandled' = [sender |-> s, data |-> data, n |-> sharedHandled.n + 1]
    /\ UNCHANGED <<sharedClients, sharedSockets>>
    /\ UNCHANGED outsideShared

\* the peer's close frame arrives, or the connection breaks: the socket is
\* CLOSING until its close event
SharedSocketClosing(s) ==
    /\ sharedSockets[s] = "OPEN"
    /\ sharedSockets' = [sharedSockets EXCEPT ![s] = "CLOSING"]
    /\ UNCHANGED <<sharedClients, sharedInbox, sharedHandled>>
    /\ UNCHANGED outsideShared

\* ws.on('close'): this.clients.delete(ws)
SharedOnClose(s) ==
    /\ sharedSockets[s] = "CLOSING"
    /\ sharedSockets' = [sharedSockets EXCEPT ![s] = "CLOSED"]
    /\ sharedClients' = sharedClients \ {s}
    /\ UNCHANGED <<sharedInbox, sharedHandled>>
    /\ UNCHANGED outsideShared

NextShared ==
    \/ SharedOnConnection
    \/ \E s \in DOMAIN sharedSockets, data \in SharedFrames : SharedOnMessage(s, data)
    \/ \E s \in DOMAIN sharedSockets : SharedSocketClosing(s)
    \/ \E s \in DOMAIN sharedSockets : SharedOnClose(s)

(***************************************************************************)
(* Claims about TokenHttpServer.                                           *)
(***************************************************************************)
Count(arr, id) == Cardinality({i \in DOMAIN arr : arr[i].id = id})

\* getTokens() is exactly the net effect: an id of the map appears once, with
\* the map's token; no other id appears
NetExact ==
    \A id \in StoreIds :
        IF id \in DOMAIN net
        THEN /\ Count(getTokens, id) = 1
             /\ getTokens[findIndex(getTokens, id)] = net[id]
        ELSE Count(getTokens, id) = 0

HandledStore(type) ==
    /\ storeEvent.op = "handleTokenMessage"
    /\ storeEvent.message.type = type

\* C4 as stated: after any sequence of create, update and delete messages
\* handled by a new store, every id created or upserted and not deleted
\* afterwards appears exactly once in getTokens() with its latest value, and
\* no other id appears.
C4_NetEffectAnySequence == cudOnly => NetExact

\* C4 amended: the same, for the sequences in which no create carries an id
\* that is stored at that moment (create appends without looking); it holds
\* as well when a sync with pairwise distinct ids has loaded the store.
C4_NetEffectWithoutCollidingCreate == collisionFree => NetExact

\* an update has replaced the first of two stored tokens, ids kept distinct
C4_Witness ==
    /\ collisionFree
    /\ HandledStore("update")
    /\ Len(prevTokens) = 2
    /\ Len(getTokens) = 2
    /\ getTokens[1] # prevTokens[1]

\* C5: a delete whose tokenId matches no stored token leaves the stored list
\* unchanged; an update whose token id matches no stored token appends that
\* token, which is the result of create.
C5_MissingIdDeleteAndUpdate ==
    storeEvent.op = "handleTokenMessage" =>
        LET m == storeEvent.message
        IN  /\ (m.type = "delete" /\ m.payload.tokenId \notin IdsOf(prevTokens))
                    => getTokens = prevTokens
            /\ (m.type = "update" /\ m.payload.token.id \notin IdsOf(prevTokens))
                    => /\ getTokens = Append(prevTokens, m.payload.token)
                       /\ getTokens = applyCreate(prevTokens, m.payload.token)

\* a delete of an id that is not stored has been handled on a non-empty store
C5_Witness ==
    /\ HandledStore("delete")
    /\ prevTokens # <<>>
    /\ storeEvent.message.payload.tokenId \notin IdsOf(prevTokens)

\* C6: after a sync carrying T is handled, getTokens() is exactly T, whatever
\* the store held before.
C6_SyncRoundTrip ==
    HandledStore("sync") => getTokens = storeEvent.message.payload.tokens

\* a sync has replaced a non-empty store holding other tokens
C6_Witness ==
    /\ HandledStore("sync")
    /\ prevTokens # <<>>
    /\ storeEvent.message.payload.tokens # <<>>
    /\ IdsOf(prevTokens) \cap IdsOf(storeEvent.message.payload.tokens) = {}

\* the update and delete messages
IdempotentMessage == {m \in StoreMessage : m.type \in {"update", "delete"}}

\* C26: from the stored tokens of every reachable state, handling an update
\* message twice gives what handling it once gives, and so for a delete
\* message; and when the store has handled the same update or delete message
\* twice in a row, the second handling left the tokens as the first left them
C26_UpdateAndDeleteAreIdempotent ==
    /\ \A m \in IdempotentMessage :
          handleTokenMessageResult(handleTokenMessageResult(srvTokens, m), m)
              = handleTokenMessageResult(srvTokens, m)
    /\ (/\ storeEvent.op = "handleTokenMessage"
        /\ storeEvent.repeat
        /\ storeEvent.message \in IdempotentMessage) => srvTokens = prevTokens

\* the same update of a stored token has been handled twice in a row, with
\* another token stored beside it
C26_Witness ==
    /\ storeEvent.op = "handleTokenMessage"
    /\ storeEvent.repeat
    /\ storeEvent.message.type = "update"
    /\ Len(srvTokens) = 2
    /\ srvTokens = prevTokens
    /\ \E i \in DOMAIN srvTokens : srvTokens[i] = storeEvent.message.payload.token

(***************************************************************************)
(* Claims about the relay.                                                 *)
(***************************************************************************)
Handled(op) == relayEvent.op = op

\* C1: with N open push clients and M stream clients connected, a message
\* from a push client that is relayed produces at most N+M-1 sends and none
\* to the socket it came from; a relayed POST message produces exactly N+M.
C1_FanOutExcludesOrigin ==
    /\ (Handled("ws.message") /\ relayEvent.broadcast) =>
            /\ Cardinality(relayEvent.attempted) <= relayEvent.openWs + relayEvent.sse - 1
            /\ relayEvent.origin \notin relayEvent.attempted
    /\ (Handled("POST") /\ relayEvent.broadcast) =>
            Cardinality(relayEvent.attempted) = relayEvent.openWs + relayEvent.sse

\* C7: a POST whose body is not valid JSON is answered 400 {error: 'Invalid
\* JSON'}, leaves currentTokens and both client sets as they were and sends
\* nothing to any client.
C7_InvalidJsonPost ==
    (Handled("POST") /\ ~relayEvent.data.json) =>
        /\ httpResponse.status = 400
        /\ httpResponse.body = [error |-> "Invalid JSON"]
        /\ currentTokens = relayEvent.tokensBefore
        /\ wsClients = relayEvent.wsBefore
        /\ sseClients = relayEvent.sseBefore
        /\ relayEvent.attempted = {}
        /\ SumLen(inbox, Handles) = relayEvent.written

\* an unparseable POST has been answered while clients of both transports
\* were connected and tokens were stored
C7_Witness ==
    /\ Handled("POST") /\ ~relayEvent.data.json
    /\ wsClients # {} /\ sseClients # {}
    /\ currentTokens # <<>>

\* C8: once a POST sync carrying T was acknowledged with 200, every GET
\* /api/tokens returns tokens = T until a later sync with tokens is processed
\* (push or POST).
C8_GetReturnsAckedSync ==
    (httpResponse.method = "GET" /\ ackedPost.seen) =>
        httpResponse.body.tokens = ackedPost.tokens

\* a GET has answered after an acknowledged POST sync and one more message
C8_Witness ==
    /\ httpResponse.method = "GET"
    /\ ackedPost.seen /\ ackedPost.tokens # <<>>
    /\ httpResponse.body.tokens = ackedPost.tokens
    /\ inbound = 2

\* C9: currentTokens is the payload.tokens of the latest processed sync that
\* carried tokens (push or POST), empty when there was none; update, create
\* and delete messages leave it as it was.
C9_CurrentTokensIsLastSync ==
    /\ currentTokens = IF lastSync.seen THEN lastSync.tokens ELSE <<>>
    /\ (/\ relayEvent.op \in {"ws.message", "POST"}
        /\ relayEvent.data.json
        /\ relayEvent.data.value.type \in {"update", "create", "delete"})
            => currentTokens = relayEvent.tokensBefore

\* an update arrived on the push channel after a sync had stored tokens
C9_Witness ==
    /\ Handled("ws.message")
    /\ relayEvent.data.json /\ relayEvent.data.value.type = "update"
    /\ lastSync.seen /\ lastSync.tokens # <<>>
    /\ currentTokens = lastSync.tokens

\* the body of the catch-up message written to client c on connection
CatchUpFor(c, snapshot, at) ==
    LET m == [type |-> "initial_sync", tokens |-> snapshot, timestamp |-> at]
    IN  IF c \in SseHandles THEN sseMessage(m) ELSE wsMessage(m)

\* C11: on a new push or stream connection the relay sends a catch-up message
\* to the new client alone exactly when currentTokens is non-empty at connect
\* time; it is the first message the client receives and no other client
\* receives it.
C11_CatchUpOnConnect ==
    [][\A c \in Handles :
          (connState[c] = "NONE" /\ connState'[c] = "OPEN") =>
              /\ inbox[c] = <<>>
              /\ inbox'[c] = IF Len(currentTokens) > 0
                             THEN <<CatchUpFor(c, currentTokens, now)>>
                             ELSE <<>>
              /\ \A d \in Handles \ {c} : inbox'[d] = inbox[d]]_vars

\* a push client and a stream client are connected: the push client connected
\* while tokens were stored and its first message is the catch-up, the stream
\* client connected before and holds no catch-up
C11_Witness ==
    \E c \in WsHandles, r \in SseHandles :
        /\ connState[c] = "OPEN" /\ connState[r] = "OPEN"
        /\ Len(currentTokens) > 0
        /\ inbox[c] = <<CatchUpFor(c, currentTokens, now)>>
        /\ Len(inbox[r]) > 0
        /\ \A i \in DOMAIN inbox[r] : inbox[r][i].body.value.type # "initial_sync"

\* the JSON value of the latest message written to client c
LastWritten(c) ==
    LET m == inbox[c][Len(inbox[c])]
    IN  IF c \in SseHandles THEN m.body.value ELSE m.value

\* the message the latest handler passed to broadcastToAll
Stamped ==
    Spread(relayEvent.data.value,
           [source |-> IF relayEvent.op = "POST" THEN "figma" ELSE "websocket",
            timestamp |-> now])

\* the latest handler called broadcastToAll
Broadcast == relayEvent.op \in {"ws.message", "POST"} /\ relayEvent.broadcast

\* C12: when a write of broadcastToAll throws, the client written to is
\* removed from its client set and every other connected client, on both
\* transports, still receives the message: the loop is never aborted.
C12_ThrowingWriteIsIsolated ==
    Broadcast =>
        /\ relayEvent.threw \cap (wsClients \cup sseClients) = {}
        /\ wsClients = relayEvent.wsBefore \ relayEvent.threw
        /\ sseClients = relayEvent.sseBefore \ relayEvent.threw
        /\ \A c \in relayEvent.attempted \ relayEvent.threw :
              /\ Len(inbox[c]) > 0
              /\ LastWritten(c) = Stamped
        /\ SumLen(inbox, Handles)
             = relayEvent.written + Cardinality(relayEvent.attempted \ relayEvent.threw)

\* a broadcast in which one write threw while clients of both transports
\* were written to
C12_Witness ==
    /\ Broadcast
    /\ relayEvent.threw # {}
    /\ \E c \in WsHandles, r \in SseHandles :
          {c, r} \subseteq relayEvent.attempted
          /\ (c \in relayEvent.threw) # (r \in relayEvent.threw)

\* an inbound text the claim calls malformed: unparseable, of a type outside
\* sync | update | create | delete, or a sync without payload.tokens
Malformed(data) ==
    \/ ~data.json
    \/ ~Has(data.value, "type")
    \/ data.value.type \notin {"sync", "update", "create", "delete"}
    \/ (data.value.type = "sync" /\ ~CarriesSyncTokens(data))

\* C14: a malformed inbound message (unparseable JSON, a type outside
\* sync|update|create|delete such as 'request_tokens', a sync without
\* payload.tokens) is dropped: no relay state changes and nothing is sent to
\* any client.
C14_MalformedIsDropped ==
    (relayEvent.op \in {"ws.message", "POST"} /\ Malformed(relayEvent.data)) =>
        /\ currentTokens = relayEvent.tokensBefore
        /\ wsClients = relayEvent.wsBefore
        /\ sseClients = relayEvent.sseBefore
        /\ relayEvent.attempted = {}
        /\ SumLen(inbox, Handles) = relayEvent.written

\* a malformed message has been handled while a client was connected
C14_Witness ==
    /\ relayEvent.op \in {"ws.message", "POST"}
    /\ Malformed(relayEvent.data)
    /\ relayEvent.data.json
    /\ relayEvent.attempted # {}
    /\ SumLen(inbox, Handles) > relayEvent.written

\* C25: every response of the relay on /api/tokens carries
\* Access-Control-Allow-Origin: *
C25_EveryResponseAllowsAnyOrigin ==
    httpResponse.method \in {"GET", "POST", "OPTIONS"} => httpResponse.acao

\* the relay has answered a POST with 400, without the header
C25_Witness ==
    /\ httpResponse.method = "POST"
    /\ httpResponse.status = 400
    /\ ~httpResponse.acao

\* C15: every message the relay broadcasts carries a source and a timestamp
\* set by the relay: 'websocket' exactly when the message came in on the push
\* channel, 'figma' exactly when it was POSTed; what the sender supplied in
\* those fields is overwritten.
C15_RelayStampsSourceAndTime ==
    Broadcast =>
        \A c \in relayEvent.attempted \ relayEvent.threw :
            /\ Len(inbox[c]) > 0
            /\ Has(LastWritten(c), "source") /\ Has(LastWritten(c), "timestamp")
            /\ (LastWritten(c).source = "websocket") = (relayEvent.op = "ws.message")
            /\ (LastWritten(c).source = "figma") = (relayEvent.op = "POST")
            /\ LastWritten(c).timestamp = now

\* a message that came with the sender's own source and timestamp has been
\* relayed to a client with the relay's stamp
C15_Witness ==
    /\ Broadcast
    /\ Has(relayEvent.data.value, "source")
    /\ relayEvent.data.value.source = "sender"
    /\ relayEvent.data.value.timestamp # now
    /\ \E c \in relayEvent.attempted \ relayEvent.threw :
          /\ LastWritten(c).source \in {"websocket", "figma"}
          /\ LastWritten(c).timestamp = now

\* the relay has processed the close or error event of connection c
Gone(c) == connState[c] \in {"CLOSED", "ERRORED"}

\* C16: once the relay has processed the close (or error) event of a push or
\* stream connection, the connection is in neither client set and no later
\* broadcast sends to it; a client set gains only a connection that is new,
\* so a connection that closed, errored or failed a write never returns.
C16_ClosedConnectionsLeaveTheSets ==
    [][/\ \A c \in Handles : Gone(c)' => c \notin wsClients' \cup sseClients'
       /\ \A c \in Handles : Gone(c) => inbox'[c] = inbox[c]
       /\ \A c \in (wsClients' \cup sseClients') \ (wsClients \cup sseClients) :
             connState[c] = "NONE" /\ connState'[c] = "OPEN"
       /\ wsClients' \subseteq WsHandles /\ sseClients' \subseteq SseHandles]_vars

\* a message has been broadcast to a client after another connection, which
\* had received messages before, closed or errored
C16_Witness ==
    /\ Broadcast
    /\ \E c \in Handles, d \in Handles :
          /\ Gone(c) /\ Len(inbox[c]) > 0
          /\ d \in relayEvent.attempted \ relayEvent.threw
          /\ c \notin wsClients \cup sseClients
          /\ c \notin relayEvent.attempted

\* C40: the 200 acknowledgement of POST /api/tokens counts the clients left
\* after the broadcast: the two sets without the clients whose write threw,
\* and totalClients is the sum of the two counts.
C40_AckCountsAfterBroadcast ==
    (relayEvent.op = "POST" /\ relayEvent.broadcast) =>
        /\ httpResponse.status = 200
        /\ sseClients = relayEvent.sseBefore \ relayEvent.threw
        /\ wsClients = relayEvent.wsBefore \ relayEvent.threw
        /\ httpResponse.body.sseClients = Cardinality(sseClients)
        /\ httpResponse.body.wsClients = Cardinality(wsClients)
        /\ httpResponse.body.totalClients =
              httpResponse.body.sseClients + httpResponse.body.wsClients

\* a POST was acknowledged after the write to one of two clients had thrown:
\* the acknowledgement counts the one that is left
C40_Witness ==
    /\ relayEvent.op = "POST" /\ relayEvent.broadcast
    /\ Cardinality(relayEvent.sseBefore \cup relayEvent.wsBefore) = 2
    /\ relayEvent.threw # {}
    /\ httpResponse.status = 200
    /\ httpResponse.body.totalClients = 1

(***************************************************************************)
(* Claims about the relay fed by queueing push clients.                    *)
(***************************************************************************)
\* the JSON value of the i-th message written to client d
Written(d, i) == IF d \in SseHandles THEN inbox[d][i].body.value ELSE inbox[d][i].value

\* the i-th message written to d is the relayed n-th message of push client c
RelayedFrom(d, i, c, n) ==
    /\ Has(Written(d, i), "from") /\ Written(d, i).from = c
    /\ Written(d, i).seq = n

C2_SecondSyncInWindowSuppressed ==
    (hookEvent.op = "sync" /\ hookEvent.prior > 0) =>
        /\ hookEvent.at - hookEvent.prior < minSyncInterval => ~hookEvent.applied
        /\ hookEvent.at - hookEvent.prior >= minSyncInterval => hookEvent.applied

\* a second sync has been handled 500 ms after an applied one
C2_Witness ==
    /\ hookEvent.op = "sync" /\ hookEvent.prior > 0
    /\ hookEvent.at - hookEvent.prior = TickMs

\* a step in which ws.onmessage handled a message
OnMessageStep ==
    /\ Len(hookRead') = Len(hookRead)
    /\ hookRead' # hookRead

\* the tokens of P that a sync with incoming tokens I keeps, as the claim
\* words it
KeptBySync(P, I) ==
    SelectSeq(P, LAMBDA t :
        /\ ~startsWith(t.id, <<"S", ":">>)
        /\ ~startsWith(t.id, <<"T", ":">>)
        /\ ~startsWith(t.id, <<"d", "e", "b", "u", "g", "-">>)
        /\ ~includes(t.id, <<"V", "a", "r", "i", "a", "b", "l", "e", "I", "D", ":">>)
        /\ \A i \in DOMAIN I : I[i].id # t.id)

ConvertedInOrder(I) == [i \in 1 .. Len(I) |-> convertDesignToken(I[i])]

\* C13: a sync applied by useTokens to a token list P with incoming tokens I
\* leaves exactly the tokens of P whose id does not start with 'S:', 'T:' or
\* 'debug-', does not contain 'VariableID:' and is not an id of I, in their
\* order, followed by the converted tokens of I in order.
C13_SyncMergeKeepsManualTokens ==
    [][(OnMessageStep /\ hookEvent'.op = "sync" /\ hookEvent'.applied) =>
          /\ hookEvent'.before = tokens
          /\ tokens' = KeptBySync(tokens, hookEvent'.incoming)
                          \o ConvertedInOrder(hookEvent'.incoming)]_vars

\* a sync has been applied to a list holding a manual token, a style token
\* and a plain-id token of an earlier sync
C13_Witness ==
    /\ hookEvent.op = "sync" /\ hookEvent.applied
    /\ Len(hookEvent.incoming) > 0
    /\ \E i, j, k \in DOMAIN hookEvent.before :
          /\ hookEvent.before[i].id = IdManual
          /\ hookEvent.before[j].id = IdStyle
          /\ hookEvent.before[k].id = IdPlain
    /\ tokens = KeptBySync(hookEvent.before, hookEvent.incoming)
                   \o ConvertedInOrder(hookEvent.incoming)
    /\ Len(tokens) > Len(hookEvent.incoming)

\* C23 as stated: in every reachable state wsConnected is true only if the
\* hook's current socket is open
C23_FlagFollowsSocket ==
    wsConnected => (hookWs # 0 /\ hookSockets[hookWs] = "OPEN")

\* C23 amended: every open event sets wsConnected, every close event and every
\* error event clears it; as long as the effect's cleanup has not run,
\* wsConnected is true only if the current socket is open. (The cleanup calls
\* ws.close() and leaves the flag as it is until the close event.)
C23_FlagFollowsSocketUntilCleanup ==
    [][/\ \A k \in DOMAIN hookSockets :
            /\ (hookSockets[k] = "CONNECTING" /\ hookSockets'[k] = "OPEN") => wsConnected'
            /\ (hookSockets[k] # "CLOSED" /\ hookSockets'[k] = "CLOSED") => ~wsConnected'
            /\ (/\ hookSockets[k] \in {"CONNECTING", "OPEN"}
                /\ hookSockets'[k] = "CLOSING"
                /\ hookPhase' = hookPhase) => ~wsConnected'
       /\ (wsConnected' /\ hookPhase' # "unmounted") =>
            (hookWs' # 0 /\ hookSockets'[hookWs'] = "OPEN")]_vars

\* the socket that had opened got an error event while the hook is mounted,
\* and the flag is down
C23_Witness ==
    /\ hookPhase = "mounted"
    /\ hookWs # 0
    /\ hookSockets[hookWs] = "CLOSING"
    /\ hookOutbox[hookWs] # <<>>
    /\ ~wsConnected

\* C24: after a sync has been applied, every incoming token whose type is a
\* TokenType is held by the hook with the same id, the same type and the same
\* value
C24_SyncKeepsIdTypeValue ==
    (hookEvent.op = "sync" /\ hookEvent.applied) =>
        \A i \in DOMAIN hookEvent.incoming :
            hookEvent.incoming[i].type \in TokenType =>
                \E j \in DOMAIN tokens :
                    /\ tokens[j].id = hookEvent.incoming[i].id
                    /\ tokens[j].dtcgType = hookEvent.incoming[i].type
                    /\ tokens[j].dtcgValue = hookEvent.incoming[i].value

\* a sync carrying a duration token has been applied, and the hook holds the
\* token as a dimension
C24_Witness ==
    /\ hookEvent.op = "sync" /\ hookEvent.applied
    /\ \E i \in DOMAIN hookEvent.incoming : \E j \in DOMAIN tokens :
          /\ hookEvent.incoming[i].type = "duration"
          /\ tokens[j].id = hookEvent.incoming[i].id
          /\ tokens[j].dtcgType = "dimension"
          /\ tokens[j].dtcgValue = hookEvent.incoming[i].value

\* a socket of the hook gets its close event in this step
ClosesIn(k) == hookSockets[k] # "CLOSED" /\ hookSockets'[k] = "CLOSED"

C31_NoSocketAfterCleanup ==
    hookPhase = "unmounted" =>
        \A k \in DOMAIN hookSockets : hookSockets[k] \notin {"CONNECTING", "OPEN"}

\* the cleanup closed the first socket while it was open, and the second
\* socket, created by the timer of that close, is open
C31_Witness ==
    /\ hookPhase = "unmounted"
    /\ Len(hookSockets) = 2
    /\ hookSockets[1] = "CLOSED"
    /\ hookOutbox[1] # <<>>
    /\ hookSockets[2] = "OPEN"
    /\ hookWs = 2

\* the tokens of the hook that did not come from addToken
NotAddedByHand(arr) == SelectSeq(arr, LAMBDA t : t.id # IdManual)

\* C32: when the latest message the hook has processed is a sync, the tokens
\* it holds that came over the connection are exactly the tokens of that
\* sync, in order; none of an earlier sync is left
C32_ConvergesToLastSync ==
    hookEvent.op = "sync" =>
        NotAddedByHand(tokens) = ConvertedInOrder(hookEvent.incoming)

\* a sync with the plain-id token was applied, then a sync with the style
\* token only, and the hook still holds the plain-id token
C32_Witness ==
    /\ hookEvent.op = "sync" /\ hookEvent.applied
    /\ Len(hookEvent.incoming) = 1
    /\ hookEvent.incoming[1].id = IdStyle
    /\ \E j \in DOMAIN tokens : tokens[j].id = IdPlain
    /\ \E j \in DOMAIN hookEvent.before : hookEvent.before[j].id = IdPlain

\* merging the converted array I into the list P twice gives what merging it
\* once gives
MergedTwiceIsMergedOnce(P, I) ==
    mergeSync(mergeSync(P, mapConvert(I)), mapConvert(I)) = mergeSync(P, mapConvert(I))

\* C33: the sync merge is idempotent: for the token list of every reachable
\* state and every incoming array, applying the sync twice yields the list
\* that applying it once yields; and a step in which the hook applies the
\* sync it has just applied leaves the token list as it is
C33_SyncMergeIsIdempotent ==
    [][/\ \A I \in HookArrays :
            MergedTwiceIsMergedOnce(tokens, I) /\ MergedTwiceIsMergedOnce(tokens', I)
       /\ (/\ OnMessageStep
           /\ hookEvent.op = "sync" /\ hookEvent.applied
           /\ tokens = mergeSync(hookEvent.before, mapConvert(hookEvent.incoming))
           /\ hookEvent'.op = "sync" /\ hookEvent'.applied
           /\ hookEvent'.incoming = hookEvent.incoming) => tokens' = tokens]_vars

\* the second sync the socket delivered has been applied to the list an
\* application of the same sync leaves, which holds a token added by hand
\* beside the incoming one
C33_Witness ==
    /\ hookEvent.op = "sync" /\ hookEvent.applied
    /\ Len(hookEvent.incoming) > 0
    /\ hookEvent.before = mergeSync(hookEvent.before, mapConvert(hookEvent.incoming))
    /\ tokens = hookEvent.before
    /\ hookEvent.prior > 0
    /\ hookRead[hookWs] = 2
    /\ \E j \in DOMAIN tokens : tokens[j].id = IdManual

Quiescent ==
    /\ hookWs # 0
    /\ hookSockets[hookWs] = "OPEN"
    /\ connState[Ws(hookWs)] = "OPEN"
    /\ \A k \in DOMAIN hookOutbox : hookOutbox[k] = <<>>

\* C18: every local token mutation of the web app (addToken, updateToken,
\* deleteToken, importTokens, clearAllTokens) is sent through the transport,
\* so the relay comes to reflect it: once nothing is on its way any more,
\* the relay's snapshot holds the ids of the hook's token list.
C18_LocalMutationsReachRelay ==
    Quiescent => IdsOf(currentTokens) = IdsOf(tokens)

\* the page has edited the token list and nothing is on its way to the relay
C18_Witness ==
    /\ Quiescent
    /\ Len(tokens) > 0
    /\ inbound > 0

(***************************************************************************)
(* Claims about HybridClient.                                              *)
(***************************************************************************)
\* C19: a polling loop issues its first GET 1 second after connect() and each
\* following GET 3 seconds after the previous poll finished, with success or
\* with an error; a loop never has more than one GET outstanding, and after
\* a failed GET the next one waits for the next tick.
C19_PollSchedule ==
    \A l \in DOMAIN loops :
        /\ loops[l].outstanding <= 1
        /\ loops[l].polls >= 1 =>
              loops[l].issuedAt - loops[l].waitedFrom
                  = IF loops[l].polls = 1 THEN 1000 ELSE 3000
        /\ (loops[l].phase = "timer" /\ loops[l].polls >= 1) =>
              /\ loops[l].outstanding = 0
              /\ loops[l].due = loops[l].armedAt + 3000
              /\ loops[l].armedAt >= loops[l].issuedAt

\* a loop has issued a GET 3 seconds after its previous GET failed, and that
\* previous GET had taken time
C19_Witness ==
    \E l \in DOMAIN loops :
        /\ loops[l].phase = "fetching"
        /\ loops[l].polls = 2
        /\ loops[l].settled = "rejected"
        /\ loops[l].waitedFrom > 1000
        /\ loops[l].issuedAt = loops[l].waitedFrom + 3000

\* C20: every poll request finishes within a bounded time, a timeout of 3
\* seconds, so that a request the relay never answers cannot stop polling.
C20_PollRequestTimesOut ==
    \A l \in DOMAIN loops :
        loops[l].phase = "fetching" => pollClock - loops[l].issuedAt <= 3000

\* a GET of a connected client has been outstanding for more than 3 seconds
\* and its loop has no timer armed
C20_Witness ==
    /\ isConnected
    /\ \E l \in DOMAIN loops :
          /\ loops[l].phase = "fetching"
          /\ pollClock - loops[l].issuedAt > 3000

\* how a poll GET fails: a status that is not ok, a rejected fetch
FailedPoll == {"notOk", "rejected"}

\* C21: when a poll GET fails, the latest message the plugin UI holds after
\* pollForUpdates has handled the failure is an errored connection status
C21_FailedPollIsSurfaced ==
    \A l \in DOMAIN loops :
        loops[l].settled \in FailedPoll => loops[l].shown = StatusErrored

\* a poll has failed while the UI had been told the client is connected
C21_Witness ==
    \E l \in DOMAIN loops :
        /\ loops[l].settled \in FailedPoll
        /\ loops[l].shown = StatusConnected

\* C35: every poll answered with 200 hands its snapshot to the registered
\* handlers, the empty snapshot included.
C35_EveryOkPollIsDispatched ==
    \A l \in DOMAIN loops :
        loops[l].settled \in {"tokens", "empty"} => loops[l].dispatched

\* a poll was answered with 200 and an empty snapshot, and no handler was called
C35_Witness ==
    \E l \in DOMAIN loops :
        /\ loops[l].settled = "empty"
        /\ loops[l].polls > 0
        /\ ~loops[l].dispatched

\* the polling loops that still hold a timer or a request
ActiveLoops == {l \in DOMAIN loops : loops[l].phase \in {"timer", "fetching"}}

\* C36: whatever the sequence of connect() and disconnect(), at most one
\* polling loop is active.
C36_AtMostOneLoop == Cardinality(ActiveLoops) <= 1

\* two loops have a request in flight at once on a connected client
C36_Witness ==
    /\ isConnected
    /\ Cardinality({l \in DOMAIN loops : loops[l].phase = "fetching"}) >= 2

\* C37: a poll that settles while the client is disconnected is not dispatched
\* to the handlers and posts no REAL_TIME_UPDATE.
C37_NoDispatchAfterDisconnect ==
    \A l \in DOMAIN loops :
        (loops[l].settled # "none" /\ ~loops[l].live) =>
            /\ ~loops[l].dispatched
            /\ loops[l].shown # RealTimeUpdate

\* the request in flight at disconnect() was answered afterwards, dispatched
\* and shown to the UI
C37_Witness ==
    /\ ~isConnected
    /\ \E l \in DOMAIN loops :
        /\ ~loops[l].live
        /\ loops[l].dispatched
        /\ loops[l].shown = RealTimeUpdate
        /\ uiPosted = RealTimeUpdate

\* this step settles a send() whose POST was answered with 200
SendSucceeds == posts' = posts - 1 /\ uiPosted' = SyncStatus

\* this step settles a poll whose GET was answered with 200
PollSucceeds ==
    \E l \in DOMAIN loops :
        /\ loops[l].phase = "fetching"
        /\ loops'[l].phase = "timer"
        /\ loops'[l].settled \in {"tokens", "empty"}

\* C38: once a failed send has made the UI show connected:false, the next
\* successful send or poll makes it show connected:true.
C38_SuccessRestoresStatus ==
    [][(uiConnected = "false" /\ (SendSucceeds \/ PollSucceeds)) =>
           uiConnected' = "true"]_vars

\* the UI was told connected:false, then a send succeeded, and the UI is still
\* at connected:false
C38_Witness ==
    /\ uiConnected = "false"
    /\ uiPosted = SyncStatus
    /\ loops # <<>>

(***************************************************************************)
(* Claims about the shared WebSocketServer.                                *)
(***************************************************************************)
\* this step is the message handler of connection s taking the frame data
HandlesFrame(s, data) ==
    /\ sharedHandled'.n = sharedHandled.n + 1
    /\ sharedHandled'.sender = s
    /\ sharedHandled'.data = data

\* connection c was sent one more frame in this step, denoting what data denotes
RelayedTo(c, data) ==
    /\ Len(sharedInbox'[c]) = Len(sharedInbox[c]) + 1
    /\ SubSeq(sharedInbox'[c], 1, Len(sharedInbox[c])) = sharedInbox[c]
    /\ JSONparse(sharedInbox'[c][Len(sharedInbox'[c])]) = JSONparse(data)

C3_GivesUpAtFifthClose ==
    wcEvent = "close" =>
        /\ consecutiveCloses < maxReconnectAttempts => closeScheduled
        /\ consecutiveCloses = maxReconnectAttempts => ~closeScheduled

\* C3 amended: a reconnect attempt is scheduled at the K-th consecutive close
\* for every K <= 5 (the fifth close schedules attempt 5/5); the client gives
\* up, scheduling nothing, at the 6th consecutive close and at every later one.
C3_GivesUpAfterFifthAttempt ==
    wcEvent = "close" =>
        /\ consecutiveCloses <= maxReconnectAttempts => closeScheduled
        /\ consecutiveCloses > maxReconnectAttempts => ~closeScheduled

\* the sixth consecutive close has happened and the client has given up
C3_Witness ==
    /\ wcEvent = "close"
    /\ consecutiveCloses = maxReconnectAttempts + 1
    /\ ~closeScheduled
    /\ reconnectTimers = 0

Min(a, b) == IF a < b THEN a ELSE b

\* C27: reconnectAttempts never exceeds maxReconnectAttempts; an open event
\* leaves it at 0; and it counts the close events since the latest open up
\* to the cap, so that after an open the next maxReconnectAttempts closes each
\* find an attempt left
C27_OpenRestoresTheBudget ==
    /\ reconnectAttempts \in 0 .. maxReconnectAttempts
    /\ wcEvent = "open" => reconnectAttempts = 0
    /\ reconnectAttempts = Min(consecutiveCloses, maxReconnectAttempts)
    /\ (wcEvent = "close" /\ consecutiveCloses <= maxReconnectAttempts) => closeScheduled

\* a socket the reconnect timer created has opened, and the count is back at 0
C27_Witness ==
    /\ wcEvent = "open"
    /\ ws \in autoSockets
    /\ readyState[ws] = "OPEN"
    /\ reconnectAttempts = 0

\* C22: a send() that could not be written to the socket is reported to the
\* caller (an error thrown, an error callback or an error status), never
\* only dropped
C22_FailedSendIsSurfaced ==
    (wcIo.op = "send" /\ ~wcIo.written) => wcIo.caller # "nothing"

\* send() was called after the socket of an opened connection had closed
C22_Witness ==
    /\ wcIo.op = "send"
    /\ ~wcIo.written
    /\ ws # 0
    /\ readyState[ws] = "CLOSED"

\* C29: once disconnect() has been called, and until the owner calls
\* connect() again, the reconnect timer opens no new connection
C29_NoReconnectAfterDisconnect ==
    userDisconnected => wcEvent # "reconnect"

\* disconnect() was called on the only socket, its close event came, and the
\* timer that close armed has created a second socket
C29_Witness ==
    /\ userDisconnected
    /\ wcEvent = "reconnect"
    /\ Len(readyState) = 2
    /\ readyState[1] = "CLOSED"
    /\ ws = 2

\* C30: when the callback was registered on an open socket, a message that
\* arrives on a socket the reconnect timer created is passed to the callback
C30_CallbackSurvivesReconnect ==
    (/\ wcIo.op = "message"
     /\ registeredWhileOpen
     /\ wcIo.socket \in autoSockets) => wcIo.passed

\* a message has arrived on the current socket, which the reconnect timer
\* created after the callback had been registered
C30_Witness ==
    /\ wcIo.op = "message"
    /\ registeredWhileOpen
    /\ wcIo.socket \in autoSockets
    /\ wcIo.socket = ws
    /\ \E s \in handlers : s < wcIo.socket

(***************************************************************************)
(* Claims about the hook connected to the relay.                           *)
(***************************************************************************)
\* the hook's token list holds the converted form of every token of a snapshot
HoldsAll(snapshot) ==
    \A i \in DOMAIN snapshot :
        \E j \in DOMAIN tokens : tokens[j] = convertDesignToken(snapshot[i])

\* C10: a web-app client (useTokens) that connects to the relay while
\* currentTokens is non-empty receives a catch-up `sync` message carrying the
\* current snapshot and, after processing it, holds every token of
\* currentTokens in its token list.
C10_CatchUpReachesHook ==
    syncEvent.op = "catch-up" =>
        /\ JSONparse(syncEvent.data).ok
        /\ JSONparse(syncEvent.data).value.type = "sync"
        /\ HoldsAll(syncEvent.snapshot)

\* the hook has just handled the message the relay pushed on connection
C10_Witness ==
    /\ syncEvent.op = "catch-up"
    /\ Len(syncEvent.snapshot) > 0
    /\ hookEvent.op = "ignored"

\* the surroundings of the hook: the relay is running, and the hook creates
\* as many sockets as the relay accepts in a run
EnvInit ==
    /\ hookBudget = MaxWsClients
    /\ relayUp = TRUE

Init ==
    /\ StoreInit /\ WcInit /\ RelayInit /\ HookInit /\ LinkInit /\ PushInit /\ PollInit /\ SharedInit
    /\ EnvInit

\* the token lists the page can have put together (addToken, importTokens)
\* when a sync arrives
HeldToken == {convertDesignToken(t) : t \in HookDesignToken} \cup {ManualToken}
TokenLists == SeqsUpTo(HeldToken, MaxHookLen)

\* the hook with its socket open and any such token list, about to receive
MergeInit ==
    /\ StoreInit /\ WcInit /\ RelayInit /\ LinkInit /\ PushInit /\ PollInit /\ SharedInit /\ EnvInit
    /\ tokens \in TokenLists
    /\ wsConnected = TRUE
    /\ lastSyncTime = 0
    /\ closureLastSyncTime = 0
    /\ hookPhase = "mounted"
    /\ hookSockets = <<"OPEN">>
    /\ hookWs = 1
    /\ hookTimers = 0
    /\ hookOutbox = <<<<RequestTokens>>>>
    /\ hookRead = <<0>>
    /\ hookEvent = NoHookEvent

\* the hook followed through many connections, the relay up or down at first
ReconnectInit ==
    /\ StoreInit /\ WcInit /\ RelayInit /\ HookInit /\ LinkInit /\ PushInit /\ PollInit /\ SharedInit
    /\ hookBudget = MaxHookSockets
    /\ relayUp \in BOOLEAN

SpecStore == Init /\ [][NextStore]_vars

SpecWsClient == Init /\ [][NextWsClient]_vars

SpecWsService == Init /\ [][NextWsService]_vars

SpecRelay == Init /\ [][NextRelay]_vars

SpecHook == Init /\ [][NextHook]_vars

SpecLink == Init /\ [][NextLink]_vars

SpecPush == Init /\ [][NextPush]_vars

SpecApp == Init /\ [][NextApp]_vars

SpecPoll == Init /\ [][NextPoll]_vars

SpecPlugin == Init /\ [][NextPlugin]_vars

SpecShared == Init /\ [][NextShared]_vars

SpecMerge == MergeInit /\ [][NextMerge]_vars

\* timers fire, an attempt at a relay that is up succeeds, and a socket that
\* had an error event gets its close event
SpecReconnect ==
    /\ ReconnectInit
    /\ [][NextReconnect]_vars
    /\ WF_vars(HookReconnectTimer)
    /\ WF_vars(\E k \in 1 .. MaxHookSockets : k \in DOMAIN hookSockets /\ AttemptSucceeds(k))
    /\ WF_vars(\E k \in 1 .. MaxHookSockets : k \in DOMAIN hookSockets /\ ConnectionCloses(k))

====
